---- MODULE Spec2Model ----
(***************************************************************************)
(* Verification model of the Geographer partitioner (kit-parco/geographer). *)
(*                                                                         *)
(*   Spec      ParcoRepart::partitionGraph with its two refinement paths:  *)
(*             replicatedMultiWayFM (replicated input) and                 *)
(*             distributedFMStep / twoWayLocalFM (distributed input).      *)
(*   SpecPair  ParcoRepart::computeCommunicationPairings, statement by     *)
(*             statement.                                                  *)
(*   SpecBG    GraphUtils getBlockGraph / getLocalBlockGraphEdges on p     *)
(*             processes, round by round.                                  *)
(*   SpecKM    the main loop of KMeans::computePartition with the          *)
(*             selection of the most balanced solution.                    *)
(*                                                                         *)
(* Real-valued quantities are kept exact: epsilon is a fraction <<num,den>>,*)
(* an imbalance or a fill factor is kept as the sizes it is computed from   *)
(* or as a fraction.                                                       *)
(* A thrown exception ends the run in pc = "error". A failed assert() ends  *)
(* the run in pc = "abort"; where the code after the assert is defined      *)
(* without it (twoWayLocalFM's fullness and final asserts, partitionGraph's *)
(* assert on the cut) the run may also continue, as a build with NDEBUG     *)
(* does. Neither "error" nor "abort" returns a value to the caller.         *)
(***************************************************************************)
EXTENDS Integers, Sequences, FiniteSets, TLC

\* ------------------------------------------------------------------ bounds
\* Largest number of vertices of the exhaustively enumerated input graphs.
MaxN == 4

\* ------------------------------------------------------------------ helpers
Vertices(nn) == 0 .. (nn - 1)
Blocks(kk) == 0 .. (kk - 1)

Min(S) == CHOOSE x \in S : \A y \in S : x <= y
Max(S) == CHOOSE x \in S : \A y \in S : x >= y

RECURSIVE SumOver(_, _)
SumOver(f, S) == IF S = {} THEN 0
                 ELSE LET x == CHOOSE y \in S : TRUE
                      IN f[x] + SumOver(f, S \ {x})

\* ceil(double(a) / b) for positive b
CeilDiv(a, b) == (a + b - 1) \div b

\* the values of epsilon the inputs are drawn from, as fractions <<num, den>>
Epsilons == {<<0, 1>>, <<1, 2>>, <<1, 1>>}

\* all symmetric graphs without self-loops on nn vertices, as adjacency rows
PairsOf(nn) == {e \in SUBSET Vertices(nn) : Cardinality(e) = 2}
AdjOf(nn, es) == [v \in Vertices(nn) |-> {u \in Vertices(nn) : {u, v} \in es}]

\* ------------------------------------------------------------------ state
VARIABLES
    n,      \* number of vertices of the input graph
    k,      \* number of blocks
    adj,    \* the input matrix: adj[v] is the set of column indices of row v
    eps,    \* epsilon as <<num, den>>
    mode,   \* "replicated" or "distributed" (inputDist->isReplicated())
    entry,  \* "partitionGraph", or "fmRound" for a direct call of one FM round
    part,   \* the partition vector (result / part)
    pc,     \* position of the program
    cut,    \* partitionGraph's variable cut (the cut before the running call)
    gain,   \* partitionGraph's variable gain (value returned by the last round)
    fm,     \* the locals of the running replicatedMultiWayFM call
    numPEs, \* comm->getSize()
    df,     \* the locals of the running distributedFMStep call, over all processes
    tw,     \* the locals of the running twoWayLocalFM call
    cp,     \* the locals of the running computeCommunicationPairings call
    bg,     \* the locals of the running getBlockGraph call, over all processes
    km,     \* the locals of the running KMeans::computePartition call
    rb,     \* the locals of the running KMeans::rebalance call
    vl,     \* the running metric or computePartition call, over all processes: validation and collectives
    im,     \* the running computeImbalance call
    pe,     \* the running getPEGraph call, over all processes
    su,     \* the set-up of a running KMeans computePartition call, per process
    asg,     \* the locals of the running KMeans::assignBlocks call
    ic,     \* a call of KMeans::findInitialCentersSFC
    kc,     \* the collective operations of the k-means iterations
    rl      \* the main loop of KMeans::rebalance on several processes

pgVars == <<n, k, adj, eps, mode, entry, part, pc, cut, gain, fm, numPEs, df, tw>>
auxVars == <<cp, bg, km, rb, vl, im, pe, su, asg, ic, kc, rl>>
vars == <<pgVars, auxVars>>

\* ------------------------------------------------------------------ PrioQueue
\* A PrioQueue is the set of its <<key, element>> entries.
PQEmpty == {}
PQInsert(q, key, v) == q \cup {<<key, v>>}
PQRemove(q, v) == {e \in q : e[2] # v}
PQContains(q, v) == \E e \in q : e[2] = v
PQSize(q) == Cardinality(q)
PQMinKey(q) == Min({e[1] : e \in q})
\* the entries extractMin may return: any entry with the smallest key
PQMinElems(q) == {e \in q : e[1] = PQMinKey(q)}

\* ------------------------------------------------------------------ metrics
\* computeCut: every row counts its columns in another block; halved at the end
ComputeCut(a, p, nn) ==
    Cardinality({e \in Vertices(nn) \X Vertices(nn) :
                    e[2] \in a[e[1]] /\ p[e[1]] # p[e[2]]}) \div 2

BlockSize(p, nn, b) == Cardinality({v \in Vertices(nn) : p[v] = b})
MaxBlockSize(p, nn, kk) == Max({BlockSize(p, nn, b) : b \in Blocks(kk)})

\* (maxSize - optSize) / optSize <= epsilon
ImbalanceLE(maxSize, optSize, e) == (maxSize - optSize) * e[2] <= e[1] * optSize

\* optSize*(1+epsilon), truncated to IndexType
MaxAllowable(optSize, e) == (optSize * (e[2] + e[1])) \div e[2]

\* ------------------------------------------------------------------ SFC initial partition
\* inversePermutation: the rank of every vertex along the space-filling curve
SfcOrders(nn) == {[v \in Vertices(nn) |-> v],
                  [v \in Vertices(nn) |-> nn - 1 - v],
                  [v \in Vertices(nn) |-> (v + 1) % nn]}
\* result[i] = int(inversePermutation[i] * k / n)
SfcPartition(inversePermutation, nn, kk) ==
    [v \in Vertices(nn) |-> (inversePermutation[v] * kk) \div nn]

\* ------------------------------------------------------------------ replicatedMultiWayFM
NoFM == [active |-> FALSE]

Degree(a, v) == Cardinality(a[v])

\* edgeCuts[v][b]: number of neighbours of v in block b (self-loops skipped)
EdgeCutsOf(a, p, nn, kk) ==
    [v \in Vertices(nn) |->
        [b \in Blocks(kk) |-> Cardinality({u \in a[v] : u # v /\ p[u] = b})]]

TotalWeightOf(a, nn) ==
    SumOver([v \in Vertices(nn) |-> Cardinality(a[v] \ {v})], Vertices(nn))

\* The scan "for fragment in 0..k-1" for the best target of a vertex in block own:
\* the first fragment with the largest edgeCuts among the fragments other than own
\* that are not above maxAllowablePartSize; idAtMax = k when there is none.
BestTarget(ec, own, fragmentSizes, maxAllowablePartSize, totalWeight, kk) ==
    LET ok == {f \in Blocks(kk) : /\ f # own
                                  /\ ec[f] > -totalWeight
                                  /\ fragmentSizes[f] <= maxAllowablePartSize}
    IN IF ok = {} THEN [idAtMax |-> kk, maxCut |-> -totalWeight]
       ELSE LET m == Max({ec[f] : f \in ok})
            IN [idAtMax |-> Min({f \in ok : ec[f] = m}), maxCut |-> m]

\* "choose largest partition with non-empty queue": k when every queue is empty
LargestMovablePart(queues, fragmentSizes, kk) ==
    LET ne == {b \in Blocks(kk) : PQSize(queues[b]) > 0 /\ fragmentSizes[b] > 0}
    IN IF ne = {} THEN kk
       ELSE LET m == Max({fragmentSizes[b] : b \in ne})
            IN Min({b \in ne : fragmentSizes[b] = m})

\* lines 245-368: validation, allocation, initial targets and queues
FMStart ==
    /\ pc = "fmCall"
    /\ IF Min({part[v] : v \in Vertices(n)}) # 0
          \/ Max({part[v] : v \in Vertices(n)}) # k - 1
       THEN /\ pc' = "error"
            /\ UNCHANGED <<fm, gain>>
       ELSE IF k = 1
       THEN /\ gain' = 0
            /\ pc' = "pgCheck"
            /\ fm' = NoFM
       ELSE
        LET optSize == CeilDiv(n, k)
            maxAllowablePartSize == MaxAllowable(optSize, eps)
            fragmentSizes == [b \in Blocks(k) |-> BlockSize(part, n, b)]
            edgeCuts == EdgeCutsOf(adj, part, n, k)
            totalWeight == TotalWeightOf(adj, n)
            best == [v \in Vertices(n) |->
                        BestTarget(edgeCuts[v], part[v], fragmentSizes,
                                   maxAllowablePartSize, totalWeight, k)]
            key == [v \in Vertices(n) |-> -(best[v].maxCut - edgeCuts[v][part[v]])]
            asserts == \A v \in Vertices(n) : /\ best[v].idAtMax < k
                                              /\ best[v].maxCut >= 0
                                              /\ -key[v] <= Degree(adj, v)
        IN IF ~asserts
           THEN /\ pc' = "abort"
                /\ UNCHANGED <<fm, gain>>
           ELSE /\ fm' = [active |-> TRUE,
                          optSize |-> optSize,
                          maxAllowablePartSize |-> maxAllowablePartSize,
                          totalWeight |-> totalWeight,
                          fragmentSizes |-> fragmentSizes,
                          edgeCuts |-> edgeCuts,
                          bestTargetFragment |-> [v \in Vertices(n) |-> best[v].idAtMax],
                          queues |-> [b \in Blocks(k) |->
                                        IF fragmentSizes[b] > 1
                                        THEN {<<key[v], v>> : v \in {u \in Vertices(n) : part[u] = b}}
                                        ELSE PQEmpty],
                          moved |-> [v \in Vertices(n) |-> FALSE],
                          gainsum |-> 0,
                          gains |-> <<>>,
                          transfers |-> <<>>,
                          transferedVertices |-> <<>>,
                          imbalances |-> <<>>]
                /\ pc' = "fmLoop"
                /\ UNCHANGED gain
    /\ UNCHANGED <<n, k, adj, eps, mode, entry, part, cut, numPEs, df, tw>>
    /\ UNCHANGED auxVars

\* a variant of UnmovedNeighbours without the check of moved[]
AllNeighbours(a, v, moved) == a[v]

\* lines 441-447: the neighbours of the moved vertex whose edge cuts, target and
\* key are updated: those not yet moved in this round ("if (moved[neighbour]) continue")
UnmovedNeighbours(a, v, moved) == {u \in a[v] : ~moved[u]}

\* the loop "while (!allQueuesEmpty)" runs another iteration
FMContinues ==
    LET partID == LargestMovablePart(fm.queues, fm.fragmentSizes, k)
    IN partID # k /\ fm.fragmentSizes[partID] > 1

\* lines 375-482: one iteration of the move loop that extracts and moves a vertex
FMMove ==
    /\ pc = "fmLoop"
    /\ FMContinues
    /\ LET partID == LargestMovablePart(fm.queues, fm.fragmentSizes, k)
       IN \E top \in PQMinElems(fm.queues[partID]) :
          LET topVertex == top[2]
              topGain == -top[1]
              targetFragment == fm.bestTargetFragment[topVertex]
              storedGain == fm.edgeCuts[topVertex][targetFragment]
                            - fm.edgeCuts[topVertex][partID]
              assertsBefore == /\ topGain <= Degree(adj, topVertex)
                               /\ ~fm.moved[topVertex]
                               /\ part[topVertex] = partID
                               /\ storedGain = topGain
                               /\ fm.fragmentSizes[partID] > 1
              moved2 == [fm.moved EXCEPT ![topVertex] = TRUE]
              fragmentSizes2 == [fm.fragmentSizes EXCEPT ![partID] = @ - 1,
                                                         ![targetFragment] = @ + 1]
              gainsum2 == fm.gainsum + topGain
              nbs == UnmovedNeighbours(adj, topVertex, moved2)
              edgeCuts2 == [v \in Vertices(n) |->
                              IF v \in nbs
                              THEN [fm.edgeCuts[v] EXCEPT ![partID] = @ - 1,
                                                          ![targetFragment] = @ + 1]
                              ELSE fm.edgeCuts[v]]
              best == [u \in nbs |->
                          BestTarget(edgeCuts2[u], part[u], fragmentSizes2,
                                     fm.maxAllowablePartSize, fm.totalWeight, k)]
              key == [u \in nbs |-> -(best[u].maxCut - edgeCuts2[u][part[u]])]
              assertsAfter == \A u \in nbs :
                                  /\ edgeCuts2[u][partID] >= 0
                                  /\ edgeCuts2[u][targetFragment] <= Degree(adj, u)
                                  /\ best[u].maxCut >= 0
                                  /\ best[u].idAtMax < k
                                  /\ -key[u] <= Degree(adj, u)
              queues1 == [fm.queues EXCEPT ![partID] = PQRemove(@, topVertex)]
              queues2 == [b \in Blocks(k) |->
                            {e \in queues1[b] : e[2] \notin nbs}
                            \cup {<<key[u], u>> : u \in {w \in nbs : part[w] = b}}]
          IN IF ~assertsBefore
             THEN /\ pc' = "abort"
                  /\ UNCHANGED <<part, fm>>
             ELSE /\ part' = [part EXCEPT ![topVertex] = targetFragment]
                  /\ IF ~assertsAfter
                     THEN /\ pc' = "abort"
                          /\ UNCHANGED fm
                     ELSE /\ pc' = "fmLoop"
                          /\ fm' = [fm EXCEPT
                                !.moved = moved2,
                                !.fragmentSizes = fragmentSizes2,
                                !.gainsum = gainsum2,
                                !.gains = Append(@, gainsum2),
                                !.transfers = Append(@, <<partID, targetFragment>>),
                                !.transferedVertices = Append(@, topVertex),
                                !.imbalances = Append(@, Max({fragmentSizes2[b] : b \in Blocks(k)})),
                                !.edgeCuts = edgeCuts2,
                                !.bestTargetFragment =
                                    [v \in Vertices(n) |->
                                        IF v \in nbs THEN best[v].idAtMax ELSE @[v]],
                                !.queues = queues2]
    /\ UNCHANGED <<n, k, adj, eps, mode, entry, cut, gain, numPEs, df, tw>>
    /\ UNCHANGED auxVars

\* a variant of BestPrefix that does not look at the balance of a prefix
BestPrefixAnyBalance(gains, balanced) ==
    LET ok == {i \in 1 .. Len(gains) : gains[i] > 0}
    IN IF ok = {} THEN 0
       ELSE LET m == Max({gains[i] : i \in ok})
            IN Min({i \in ok : gains[i] = m})

\* a variant of BestPrefix that takes the first balanced prefix with a positive gain
BestPrefixFirstPositive(gains, balanced) ==
    LET ok == {i \in 1 .. Len(gains) : gains[i] > 0 /\ balanced[i]}
    IN IF ok = {} THEN 0 ELSE Min(ok)

\* lines 491-499: the index of the best tested prefix, -1 when there is none
\* (the first index that reaches the largest positive gain among the balanced ones)
BestPrefix(gains, balanced) ==
    LET ok == {i \in 1 .. Len(gains) : gains[i] > 0 /\ balanced[i]}
    IN IF ok = {} THEN 0
       ELSE LET m == Max({gains[i] : i \in ok})
            IN Min({i \in ok : gains[i] = m})

\* a variant of RolledBack whose loop stops one transfer early
RolledBackOneLess(p, transferedVertices, transfers, maxIndex) ==
    [v \in DOMAIN p |->
        IF \E i \in (maxIndex + 2) .. Len(transfers) : transferedVertices[i] = v
        THEN transfers[CHOOSE i \in (maxIndex + 2) .. Len(transfers) :
                          transferedVertices[i] = v][1]
        ELSE p[v]]

\* lines 507-511: put the vertices moved after the prefix maxIndex back
RolledBack(p, transferedVertices, transfers, maxIndex) ==
    [v \in DOMAIN p |->
        IF \E i \in (maxIndex + 1) .. Len(transfers) : transferedVertices[i] = v
        THEN transfers[CHOOSE i \in (maxIndex + 1) .. Len(transfers) :
                          transferedVertices[i] = v][1]
        ELSE p[v]]

\* lines 484-512: the move loop has ended; keep the best prefix and return its gain
FMFinish ==
    /\ pc = "fmLoop"
    /\ ~FMContinues
    /\ LET testedNodes == Len(fm.gains)
           balanced == [i \in 1 .. testedNodes |->
                           ImbalanceLE(fm.imbalances[i], fm.optSize, eps)]
           maxIndex == BestPrefix(fm.gains, balanced)
           maxGain == IF maxIndex = 0 THEN 0 ELSE fm.gains[maxIndex]
       IN /\ part' = RolledBack(part, fm.transferedVertices, fm.transfers, maxIndex)
          /\ gain' = maxGain
    /\ pc' = "pgCheck"
    /\ UNCHANGED <<n, k, adj, eps, mode, entry, cut, fm, numPEs, df, tw>>
    /\ UNCHANGED auxVars

\* ------------------------------------------------------------------ computeCommunicationPairings
\* a wrong partner: the sum in place of the bitwise exclusive or
PlusInsteadOfXor(a, b) == a + b

RECURSIVE Xor(_, _)
\* i ^ step on non-negative integers
Xor(a, b) == IF a = 0 /\ b = 0 THEN 0
             ELSE (((a % 2) + (b % 2)) % 2) + (2 * Xor(a \div 2, b \div 2))

RECURSIVE CeilLog2(_)
\* std::ceil(std::log(p) / std::log(2))
CeilLog2(p) == IF p <= 1 THEN 0 ELSE 1 + CeilLog2((p + 1) \div 2)

\* a schedule of p - 1 steps: p itself in place of the next power of two
NoRoundingUp(p) == p

\* upperPowerP = 1 << rounds
UpperPowerP(p) == 2 ^ CeilLog2(p)

\* commPerm[i] in the given step
CommPartner(i, step, p) ==
    LET partner == Xor(i, step)
    IN IF partner < p THEN partner ELSE i

\* the schedule: one vector commPerm per step = 1 .. upperPowerP-1
ComputeCommunicationPairings(p) ==
    LET steps == UpperPowerP(p) - 1
    IN [step \in 1 .. steps |-> [i \in 0 .. (p - 1) |-> CommPartner(i, step, p)]]

\* no call of computeCommunicationPairings is running
NoCP == [pc |-> "idle", maxPartID |-> 0, p |-> 0, steps |-> 0, step |-> 0,
         i |-> 0, commPerm |-> <<>>, result |-> <<>>]

\* no call of getBlockGraph is running
NoBG == [pc |-> "idle", n |-> 0, k |-> 0, p |-> 0, adj |-> <<>>, part |-> <<>>,
         owner |-> <<>>, from |-> "none", blockEdges |-> <<>>, sendPart |-> <<>>,
         recvPart |-> <<>>, received |-> FALSE, round |-> 0, matrix |-> <<>>]

\* no call of KMeans::computePartition is running
NoKM == [pc |-> "idle", n |-> 0, numBlocks |-> 0, numNodeWeights |-> 0,
         epsilon |-> <<0, 1>>, keepMostBalanced |-> FALSE, minSamplingNodes |-> 0,
         maxIterations |-> 0, samplingRounds |-> 0, samples |-> <<>>, iter |-> 0,
         sampled |-> {}, result |-> <<>>, mostBalancedResult |-> <<>>,
         imbalances |-> <<>>, imbalancesOld |-> <<>>, minImbalance |-> <<0, 1>>,
         minAchievedImbalance |-> <<0, 1>>, balanced |-> FALSE, produced |-> {},
         returned |-> <<>>, deltaAboveThreshold |-> FALSE, imbalancesBefore |-> <<>>]

\* no call of KMeans::rebalance is running
NoRB == [pc |-> "idle", n |-> 0, numBlocks |-> 0, numWeights |-> 0,
         weights |-> <<>>, mship |-> <<>>, epsilon |-> <<0, 1>>, epsilons |-> <<>>,
         method |-> "none", batchPercent |-> <<0, 1>>, pointPerCent |-> <<0, 1>>,
         localPart |-> <<>>, hasMoved |-> <<>>, indices |-> <<>>, localI |-> 0,
         numPointsToCheck |-> 0, batchSize |-> 0, numMoves |-> 0, thisRun |-> 0,
         meDone |-> FALSE, visit |-> <<>>, moves |-> <<>>, partition |-> <<>>,
         returned |-> 0]

\* no metric and no computePartition call is running on the processes
NoVL == [pc |-> "idle", op |-> "none", p |-> 0, n |-> 0, inputDist |-> <<>>,
         partDist |-> <<>>, numNodeWeights |-> 0, blockWeightSum |-> <<>>,
         epsilon |-> <<0, 1>>, debugMode |-> FALSE, repartition |-> FALSE,
         numOldBlocks |-> 0, maxPart |-> 0, steps |-> <<>>, at |-> <<>>,
         status |-> <<>>, entered |-> <<>>, ownCollectives |-> <<>>,
         othersInCollective |-> <<>>]

\* no call of computeImbalance is running
NoIM == [pc |-> "idle", function |-> "none", n |-> 0, k |-> 0, part |-> <<>>,
         p |-> 0, owner |-> <<>>, replicated |-> FALSE, result |-> <<0, 1>>]

\* no call of getPEGraph is running
NoPE == [pc |-> "idle", function |-> "none", n |-> 0, p |-> 0, adj |-> <<>>,
         owner |-> <<>>, rows |-> <<>>, PEgraph |-> <<>>]

\* no call whose set-up is followed is running
NoSU == [pc |-> "idle", function |-> "none", p |-> 0, totalNumNewBlocks |-> 0,
         minSamplingNodes |-> 0, verbose |-> FALSE, localN |-> <<>>,
         status |-> <<>>, minNodes |-> <<>>, samplingRounds |-> <<>>,
         samples |-> <<>>, boundsSize |-> <<>>, outOfRange |-> <<>>,
         randomInitialization |-> FALSE]

\* no call of KMeans::assignBlocks is running
NoAB == [pc |-> "idle", n |-> 0, coordinates |-> <<>>, fatherBlock |-> <<>>,
         blockSizesPrefixSum |-> <<>>, numNewBlocks |-> 0, centers |-> <<>>,
         sampled |-> {}, epsilon |-> <<0, 1>>, influenceChangeCap |-> <<0, 1>>,
         balanceIterations |-> 0, influence |-> <<>>, assignment |-> <<>>,
         upperBoundOwnCenter |-> <<>>, lowerBoundNextCenter |-> <<>>,
         effectMinDist |-> <<>>, clusterIndices |-> <<>>, skipped |-> {},
         iter |-> 0, allWeightsBalanced |-> FALSE]

\* no call of KMeans::findInitialCentersSFC is running
NoIC == [pc |-> "idle", version |-> "none", numPEs |-> 0, numOldBlocks |-> 0,
         localPart |-> <<>>, numNewBlocksPerOldBlock |-> <<>>, debugMode |-> FALSE,
         concatPrefixSumArray |-> <<>>, scanned |-> {}, owned |-> <<>>,
         centersPerNewBlock |-> <<>>]

\* no k-means iteration is running
NoKC == [pc |-> "idle", numPEs |-> 0, localN |-> <<>>, numNodeWeights |-> 0, dim |-> 0,
         debugMode |-> FALSE, verbose |-> FALSE, samples |-> <<>>, passes |-> <<>>,
         iter |-> <<>>, step |-> <<>>, ops |-> <<>>]

\* no call of KMeans::rebalance on several processes is running
NoRL == [pc |-> "idle", numPEs |-> 0, localN |-> <<>>, numWeights |-> 0,
         batchPercent |-> <<0, 1>>, pointPerCent |-> <<0, 1>>, numPointsToCheck |-> 0,
         localI |-> <<>>, thisRun |-> <<>>, batchSize |-> <<>>, meDone |-> <<>>,
         numMoves |-> <<>>, iters |-> <<>>, at |-> <<>>, ops |-> <<>>]

\* ------------------------------------------------------------------ getInterfaceNodes
magicBorderRegionDepth == 4

RECURSIVE SortedSeq(_)
\* the elements of a set in ascending order
SortedSeq(S) == IF S = {} THEN <<>> ELSE <<Min(S)>> \o SortedSeq(S \ {Min(S)})

Range(seq) == {seq[i] : i \in 1 .. Len(seq)}

\* std::sort on a vector of distinct indices
StdSort(seq) == SortedSeq(Range(seq))

RECURSIVE BFSRounds(_, _, _, _, _, _, _, _)
\* lines 830-853: the rounds 1 .. depth-1 of the breadth-first search; every round
\* first sets lastRoundMarker to the number of nodes found so far
BFSRounds(a, p, thisBlock, interfaceNodes, bfsQueue, round, depth, lastRoundMarker) ==
    IF round >= depth
    THEN [interfaceNodes |-> interfaceNodes, lastRoundMarker |-> lastRoundMarker]
    ELSE LET nextQueue == {u \in UNION {a[x] : x \in bfsQueue} :
                              p[u] = thisBlock /\ u \notin Range(interfaceNodes)}
         IN BFSRounds(a, p, thisBlock, interfaceNodes \o SortedSeq(nextQueue),
                      nextQueue, round + 1, depth, Len(interfaceNodes))

\* lines 788-857: the nodes of thisBlock with a neighbour in otherBlock, followed
\* by the nodes found in each later round, and the marker of the last round
GetInterfaceNodes(a, p, nn, thisBlock, otherBlock, depth) ==
    LET border == SortedSeq({v \in Vertices(nn) :
                                p[v] = thisBlock /\ \E u \in a[v] : p[u] = otherBlock})
    IN IF depth > 1
       THEN BFSRounds(a, p, thisBlock, border, Range(border), 1, depth, 0)
       ELSE [interfaceNodes |-> border, lastRoundMarker |-> 0]

\* lines 757-772: the argument checks of getInterfaceNodes that can throw
InterfaceArgsOK(p, nn, thisBlock, otherBlock, depth) ==
    LET maxBlock == Max({p[v] : v \in Vertices(nn)})
    IN /\ thisBlock <= maxBlock
       /\ otherBlock <= maxBlock
       /\ thisBlock # otherBlock
       /\ depth > 0

\* begin() .. begin()+m and begin()+m .. end() of a vector
FirstPart(seq, m) == {seq[i] : i \in 1 .. m}
LastPart(seq, m) == {seq[i] : i \in (m + 1) .. Len(seq)}

\* ------------------------------------------------------------------ twoWayLocalFM
NoTW == [active |-> FALSE]
NoDF == [active |-> FALSE]

\* the lambda computeGain, lines 1273-1315
ComputeGain(a, firstregion, secondregion, firstDummyLayer, secondDummyLayer, globalID) ==
    LET inFirst(x) == x \in firstregion \/ x \in firstDummyLayer
        inSecond(x) == x \in secondregion \/ x \in secondDummyLayer
        firstBlock == inFirst(globalID)
        nbs == a[globalID] \ {globalID}
        same == {u \in nbs : IF inSecond(u) THEN ~firstBlock
                             ELSE IF inFirst(u) THEN firstBlock ELSE FALSE}
        other == {u \in nbs : IF inSecond(u) THEN firstBlock
                              ELSE IF inFirst(u) THEN ~firstBlock ELSE FALSE}
    IN Cardinality(other) - Cardinality(same)

\* lines 1187-1347: early return, degree check, gain table and the two queues
TWStart ==
    /\ pc = "twCall"
    /\ LET veryLocal == tw.firstregion \cup tw.secondregion
           inDegree == [v \in veryLocal |->
                           Cardinality({u \in veryLocal : u # v /\ v \in adj[u]})]
           outDegree == [v \in veryLocal |->
                           Cardinality({u \in adj[v] : u # v /\ u \in veryLocal})]
           g == [v \in veryLocal |->
                    ComputeGain(adj, tw.firstregion, tw.secondregion,
                                tw.firstDummyLayer, tw.secondDummyLayer, v)]
           overlap == \/ tw.firstregion \cap tw.secondregion # {}
                      \/ tw.firstregion \cap tw.firstDummyLayer # {}
                      \/ tw.secondregion \cap tw.secondDummyLayer # {}
       IN IF /\ tw.blockSizes[1] >= tw.blockCapacities[1]
             /\ tw.blockSizes[2] >= tw.blockCapacities[2]
          THEN \* cannot move any nodes, all blocks are overloaded already
               /\ tw' = [tw EXCEPT !.result = 0, !.returned = TRUE]
               /\ pc' = "twReturn"
          ELSE IF overlap
          THEN /\ pc' = "abort"
               /\ UNCHANGED tw
          ELSE IF \E v \in veryLocal : inDegree[v] # outDegree[v]
          THEN /\ pc' = "error"
               /\ UNCHANGED tw
          ELSE /\ tw' = [tw EXCEPT
                    !.veryLocal = veryLocal,
                    !.gain = g,
                    !.firstQueue = {<<-g[v], v>> : v \in tw.firstregion},
                    !.secondQueue = {<<-g[v], v>> : v \in tw.secondregion},
                    !.moved = {}]
               /\ pc' = "twLoop"
    /\ UNCHANGED <<n, k, adj, eps, mode, entry, part, cut, gain, fm, numPEs, df>>
    /\ UNCHANGED auxVars

\* lines 1350-1361: the queue loop runs another iteration
TWContinues ==
    /\ PQSize(tw.firstQueue) + PQSize(tw.secondQueue) > 0
    /\ ~ \/ (PQSize(tw.firstQueue) = 0 /\ tw.blockSizes[1] >= tw.blockCapacities[1])
         \/ (PQSize(tw.secondQueue) = 0 /\ tw.blockSizes[2] >= tw.blockCapacities[2])

\* lines 1363-1394: the queue indices the selection can yield (0 or 1); on a tie in
\* fullness and gain the choice is made by rand()
BestQueueIndices ==
    IF PQSize(tw.firstQueue) = 0 THEN {1}
    ELSE IF PQSize(tw.secondQueue) = 0 THEN {0}
    ELSE LET f0 == tw.blockSizes[1] * tw.blockCapacities[2]  \* fullness[0], cross-multiplied
             f1 == tw.blockSizes[2] * tw.blockCapacities[1]  \* fullness[1]
             g0 == PQMinKey(tw.firstQueue)
             g1 == PQMinKey(tw.secondQueue)
         IN IF f0 > f1 \/ (f0 = f1 /\ g0 < g1) THEN {0}
            ELSE IF f1 > f0 \/ (f0 = f1 /\ g1 < g0) THEN {1}
            ELSE {0, 1}

\* lines 1442-1450: the neighbours of the moved vertex whose gain and key are
\* updated: those in the two regions that have not been moved
VeryLocalUnmoved(a, v, veryLocal, moved) ==
    {u \in a[v] : u \in veryLocal /\ u \notin moved}

\* lines 1350-1471: one iteration of the queue loop that extracts and moves a vertex
TWMove ==
    /\ pc = "twLoop"
    /\ TWContinues
    /\ \E bestQueueIndex \in BestQueueIndices :
       LET currentQueue == IF bestQueueIndex = 0 THEN tw.firstQueue ELSE tw.secondQueue
           fullnessOK == \/ PQSize(tw.firstQueue) = 0
                         \/ PQSize(tw.secondQueue) = 0
                         \/ /\ tw.blockSizes[1] <= tw.blockCapacities[1]
                            /\ tw.blockSizes[2] <= tw.blockCapacities[2]
       IN \E top \in PQMinElems(currentQueue) :
          LET topVertex == top[2]
              topGain == -top[1]
              computed == ComputeGain(adj, tw.firstregion, tw.secondregion,
                                      tw.firstDummyLayer, tw.secondDummyLayer, topVertex)
              firstregion2 == IF bestQueueIndex = 0 THEN tw.firstregion \ {topVertex}
                              ELSE tw.firstregion \cup {topVertex}
              secondregion2 == IF bestQueueIndex = 0 THEN tw.secondregion \cup {topVertex}
                               ELSE tw.secondregion \ {topVertex}
              moved2 == tw.moved \cup {topVertex}
              blockSizes2 == IF bestQueueIndex = 0
                             THEN <<tw.blockSizes[1] - 1, tw.blockSizes[2] + 1>>
                             ELSE <<tw.blockSizes[1] + 1, tw.blockSizes[2] - 1>>
              gainSum2 == tw.gainSum + topGain
              nbs == VeryLocalUnmoved(adj, topVertex, tw.veryLocal, moved2)
              g2 == [v \in tw.veryLocal |->
                        IF v \in nbs
                        THEN ComputeGain(adj, firstregion2, secondregion2,
                                         tw.firstDummyLayer, tw.secondDummyLayer, v)
                        ELSE tw.gain[v]]
              \* decreaseKey on the queue of the neighbour's block
              rekey(q) == {e \in q : e[2] \notin nbs /\ e[2] # topVertex}
                          \cup {<<-g2[u], u>> : u \in {w \in nbs : PQContains(q, w)}}
              contained == \A u \in nbs :
                              IF u \in firstregion2 \/ u \in tw.firstDummyLayer
                              THEN PQContains(tw.firstQueue, u)
                              ELSE PQContains(tw.secondQueue, u)
          IN \/ \* the asserts on fullness fail in a build that has them
                /\ ~fullnessOK
                /\ pc' = "abort"
                /\ UNCHANGED tw
             \/ IF topVertex \in tw.moved
                THEN /\ pc' = "abort"
                     /\ UNCHANGED tw
                ELSE IF topGain # computed
                THEN /\ pc' = "error"
                     /\ UNCHANGED tw
                ELSE IF topGain # tw.gain[topVertex] \/ ~contained
                THEN /\ pc' = "abort"
                     /\ UNCHANGED tw
                ELSE /\ pc' = "twLoop"
                     /\ tw' = [tw EXCEPT
                           !.firstregion = firstregion2,
                           !.secondregion = secondregion2,
                           !.moved = moved2,
                           !.blockSizes = blockSizes2,
                           !.gainSum = gainSum2,
                           !.transfers = Append(@, <<bestQueueIndex, topVertex>>),
                           !.gainSumList = Append(@, gainSum2),
                           !.fillFactorList = Append(@, blockSizes2),
                           !.gain = g2,
                           !.firstQueue = rekey(@),
                           !.secondQueue = rekey(@)]
    /\ UNCHANGED <<n, k, adj, eps, mode, entry, part, cut, gain, fm, numPEs, df>>
    /\ UNCHANGED auxVars

RECURSIVE UndoTransfersWrongSign(_, _, _, _)
\* a variant of UndoTransfers that corrects the block sizes in the wrong direction
UndoTransfersWrongSign(state, transfers, i, maxIndex) ==
    IF i <= maxIndex THEN state
    ELSE LET fromFirst == transfers[i][1] = 0
             v == transfers[i][2]
         IN UndoTransfersWrongSign(
              [firstregion |-> IF fromFirst THEN state.firstregion \cup {v}
                               ELSE state.firstregion \ {v},
               secondregion |-> IF fromFirst THEN state.secondregion \ {v}
                                ELSE state.secondregion \cup {v},
               blockSizes |-> IF fromFirst
                              THEN <<state.blockSizes[1] - 1, state.blockSizes[2] + 1>>
                              ELSE <<state.blockSizes[1] + 1, state.blockSizes[2] - 1>>],
              transfers, i - 1, maxIndex)

RECURSIVE UndoTransfers(_, _, _, _)
\* lines 1495-1507: apply the transfers maxIndex+1 .. i in reverse
UndoTransfers(state, transfers, i, maxIndex) ==
    IF i <= maxIndex THEN state
    ELSE LET fromFirst == transfers[i][1] = 0
             v == transfers[i][2]
         IN UndoTransfers(
              [firstregion |-> IF fromFirst THEN state.firstregion \cup {v}
                               ELSE state.firstregion \ {v},
               secondregion |-> IF fromFirst THEN state.secondregion \ {v}
                                ELSE state.secondregion \cup {v},
               blockSizes |-> IF fromFirst
                              THEN <<state.blockSizes[1] + 1, state.blockSizes[2] - 1>>
                              ELSE <<state.blockSizes[1] - 1, state.blockSizes[2] + 1>>],
              transfers, i - 1, maxIndex)

\* lines 1476-1511: the queue loop has ended; keep the best prefix, return its gain
TWFinish ==
    /\ pc = "twLoop"
    /\ ~TWContinues
    /\ LET testedNodes == Len(tw.gainSumList)
           fits == [i \in 1 .. testedNodes |->
                       /\ tw.fillFactorList[i][1] <= tw.blockCapacities[1]
                       /\ tw.fillFactorList[i][2] <= tw.blockCapacities[2]]
           maxIndex == BestPrefix(tw.gainSumList, fits)
           maxGain == IF maxIndex = 0 THEN 0 ELSE tw.gainSumList[maxIndex]
           undone == UndoTransfers([firstregion |-> tw.firstregion,
                                    secondregion |-> tw.secondregion,
                                    blockSizes |-> tw.blockSizes],
                                   tw.transfers, testedNodes, maxIndex)
       IN IF testedNodes = 0
          THEN /\ tw' = [tw EXCEPT !.result = 0, !.returned = TRUE]
               /\ pc' = "twReturn"
          ELSE \* the state at the final asserts; they fail when a block is above its capacity
               /\ tw' = [tw EXCEPT !.firstregion = undone.firstregion,
                                   !.secondregion = undone.secondregion,
                                   !.blockSizes = undone.blockSizes,
                                   !.result = maxGain,
                                   !.returned = TRUE]
               /\ pc' \in IF /\ undone.blockSizes[1] <= tw.blockCapacities[1]
                              /\ undone.blockSizes[2] <= tw.blockCapacities[2]
                              /\ Cardinality(undone.firstregion)
                                 + Cardinality(undone.secondregion)
                                 = Cardinality(tw.veryLocal)
                           THEN {"twReturn"} ELSE {"twReturn", "abort"}
    /\ UNCHANGED <<n, k, adj, eps, mode, entry, part, cut, gain, fm, numPEs, df>>
    /\ UNCHANGED auxVars

\* ------------------------------------------------------------------ distributedFMStep
NoResult == [matched |-> FALSE]

\* lines 897-917: the pairing scheme and the checks of k; gainSum = 0 on every process
\* lines 757 and 776-778 of getInterfaceNodes: the operations all processes take
\* part in
InterfaceCollectives == <<"part.max", "buildPartHalo", "updateHalo">>

\* lines 925, 951 and 1016-1027: the collective operations of a matched process
\* before the results are swapped
MatchedCollectives ==
    <<"sum">> \o InterfaceCollectives \o <<"HaloBuilder::build", "exchangeHalo">>

\* lines 925 and 1135-1151: the collective operations of an unmatched process
UnmatchedCollectives ==
    <<"sum">> \o InterfaceCollectives \o <<"HaloBuilder::build", "exchangeHalo">>

\* lines 925 and 757-772, 962-984: the collective operations a process has gone
\* through when it throws; the checks of the block ids follow part.max(), the
\* checks of the block size and of the border regions follow getInterfaceNodes
ThrowCollectives(argsOK) ==
    IF argsOK THEN <<"sum">> \o InterfaceCollectives ELSE <<"sum", "part.max">>

\* lines 1158-1167: the collective operations at the end of a round
RedistributionCollectives == <<"sum", "input.redistribute", "part.redistribute">>

DFStart ==
    /\ pc = "dfCall"
    /\ LET maxBlockID == Max({part[v] : v \in Vertices(n)})
           communicationScheme == ComputeCommunicationPairings(k)
       IN IF k # maxBlockID + 1 \/ k # numPEs
          THEN /\ pc' = "error"
               /\ UNCHANGED df
          ELSE /\ df' = [active |-> TRUE,
                         communicationScheme |-> communicationScheme,
                         round |-> 1,
                         proc |-> 0,
                         gainSum |-> [r \in 0 .. (numPEs - 1) |-> 0],
                         res |-> [r \in 0 .. (numPEs - 1) |-> NoResult],
                         ops |-> [r \in 0 .. (numPEs - 1) |-> <<>>]]
               /\ pc' = IF Len(communicationScheme) = 0 THEN "dfReturn" ELSE "dfRound"
    /\ UNCHANGED <<n, k, adj, eps, mode, entry, part, cut, gain, fm, numPEs, tw>>
    /\ UNCHANGED auxVars

\* the partner of the process whose turn it is in the current round
Partner == df.communicationScheme[df.round][df.proc]

\* lines 939-1057: a matched process gathers its interface nodes, sorts them, swaps
\* them with its partner, builds the regions and dummy layers and calls twoWayLocalFM
DFPrepare ==
    /\ pc = "dfRound"
    /\ df.proc < numPEs
    /\ Partner # df.proc
    /\ LET localBlockID == df.proc
           partner == Partner
           argsOK == InterfaceArgsOK(part, n, localBlockID, partner,
                                     magicBorderRegionDepth + 1)
           mine == GetInterfaceNodes(adj, part, n, localBlockID, partner,
                                     magicBorderRegionDepth + 1)
           theirs == GetInterfaceNodes(adj, part, n, partner, localBlockID,
                                       magicBorderRegionDepth + 1)
           interfaceNodes == StdSort(mine.interfaceNodes)
           lastRoundMarker == mine.lastRoundMarker
           requiredHaloIndices == StdSort(theirs.interfaceNodes)
           otherLastRoundMarker == theirs.lastRoundMarker
           blockSize == BlockSize(part, n, localBlockID)
           otherBlockSize == BlockSize(part, n, partner)
           optSize == CeilDiv(n, k)
           maxAllowableBlockSize == MaxAllowable(optSize, eps)
       IN IF ~argsOK \/ (Len(interfaceNodes) = 0 /\ Len(requiredHaloIndices) # 0)
          THEN /\ pc' = "error"
               /\ df' = [df EXCEPT !.ops[df.proc] = @ \o ThrowCollectives(argsOK)]
               /\ UNCHANGED tw
          ELSE /\ df' = [df EXCEPT !.ops[df.proc] = @ \o MatchedCollectives]
               /\ tw' = [active |-> TRUE,
                         firstregion |-> FirstPart(interfaceNodes, lastRoundMarker),
                         secondregion |-> FirstPart(requiredHaloIndices, otherLastRoundMarker),
                         firstRegionCopy |-> FirstPart(interfaceNodes, lastRoundMarker),
                         firstDummyLayer |-> LastPart(interfaceNodes, lastRoundMarker),
                         secondDummyLayer |-> LastPart(requiredHaloIndices, otherLastRoundMarker),
                         blockSizes |-> <<blockSize, otherBlockSize>>,
                         blockCapacities |-> <<maxAllowableBlockSize, maxAllowableBlockSize>>,
                         veryLocal |-> {},
                         gain |-> <<>>,
                         firstQueue |-> PQEmpty,
                         secondQueue |-> PQEmpty,
                         moved |-> {},
                         gainSum |-> 0,
                         transfers |-> <<>>,
                         gainSumList |-> <<>>,
                         fillFactorList |-> <<>>,
                         result |-> 0,
                         returned |-> FALSE]
               /\ pc' = "twCall"
    /\ UNCHANGED <<n, k, adj, eps, mode, entry, part, cut, gain, fm, numPEs>>
    /\ UNCHANGED auxVars

\* lines 1135-1151: an unmatched process performs the dummy interface and halo calls
DFIdle ==
    /\ pc = "dfRound"
    /\ df.proc < numPEs
    /\ Partner = df.proc
    /\ LET dummyPartner == IF df.proc = 0 THEN 1 ELSE 0
       IN IF InterfaceArgsOK(part, n, df.proc, dummyPartner, 1)
          THEN /\ df' = [df EXCEPT !.proc = @ + 1,
                                    !.ops[df.proc] = @ \o UnmatchedCollectives]
               /\ pc' = "dfRound"
          ELSE /\ pc' = "error"
               /\ df' = [df EXCEPT !.ops[df.proc] = @ \o ThrowCollectives(FALSE)]
    /\ UNCHANGED <<n, k, adj, eps, mode, entry, part, cut, gain, fm, numPEs, tw>>
    /\ UNCHANGED auxVars

\* line 1057: twoWayLocalFM has returned to the matched process
DFCollect ==
    /\ pc = "twReturn"
    /\ df' = [df EXCEPT !.res[df.proc] = [matched |-> TRUE,
                                          gain |-> tw.result,
                                          firstRegion |-> tw.firstregion,
                                          secondRegion |-> tw.secondregion,
                                          firstRegionCopy |-> tw.firstRegionCopy],
                        !.proc = @ + 1]
    /\ tw' = NoTW
    /\ pc' = "dfRound"
    /\ UNCHANGED <<n, k, adj, eps, mode, entry, part, cut, gain, fm, numPEs>>
    /\ UNCHANGED auxVars

\* both partners take the received solution when the gains are equal
OtherWasBetterOnTie(ownGain, otherGain, partner, rank) == otherGain >= ownGain

\* line 1095: bool otherWasBetter
OtherWasBetter(ownGain, otherGain, partner, rank) ==
    otherGain > ownGain \/ (otherGain = ownGain /\ partner < rank)

\* lines 1061-1134: the index set of process r after the gains and the better
\* solution have been swapped with its partner
NewIndices(r) ==
    LET myGlobalIndices == {v \in Vertices(n) : part[v] = r}
        partner == df.communicationScheme[df.round][r]
        own == df.res[r]
        other == df.res[partner]
    IN IF ~own.matched \/ (other.gain = 0 /\ own.gain = 0)
       THEN myGlobalIndices
       ELSE LET otherWasBetter == OtherWasBetter(own.gain, other.gain, partner, r)
                firstRegion == IF otherWasBetter THEN other.secondRegion
                               ELSE own.firstRegion
                additionalNodes == firstRegion \ own.firstRegionCopy
                deletedNodes == own.firstRegionCopy \ firstRegion
            IN (myGlobalIndices \ deletedNodes) \cup additionalNodes

\* line 1093: gainSum += max(swapField[1], gain), unless both gains are 0
NewGainSum(r) ==
    LET partner == df.communicationScheme[df.round][r]
        own == df.res[r]
        other == df.res[partner]
    IN IF ~own.matched \/ (other.gain = 0 /\ own.gain = 0)
       THEN df.gainSum[r]
       ELSE df.gainSum[r] + (IF other.gain > own.gain THEN other.gain ELSE own.gain)

\* lines 1061-1171: every process has finished its local work of the round; the
\* results are swapped, the index sets updated and the graph and part redistributed
DFCommit ==
    /\ pc = "dfRound"
    /\ df.proc = numPEs
    /\ LET newIdx == [r \in 0 .. (numPEs - 1) |-> NewIndices(r)]
           isDistribution == \A v \in Vertices(n) :
                                Cardinality({r \in 0 .. (numPEs - 1) : v \in newIdx[r]}) = 1
       IN IF ~isDistribution
          THEN /\ pc' = "error"
               /\ UNCHANGED <<part, df>>
          ELSE /\ part' = [v \in Vertices(n) |->
                              CHOOSE r \in 0 .. (numPEs - 1) : v \in newIdx[r]]
               /\ df' = [df EXCEPT
                     !.gainSum = [r \in 0 .. (numPEs - 1) |-> NewGainSum(r)],
                     !.res = [r \in 0 .. (numPEs - 1) |-> NoResult],
                     !.ops = [r \in 0 .. (numPEs - 1) |->
                                 df.ops[r] \o RedistributionCollectives],
                     !.proc = 0,
                     !.round = @ + 1]
               /\ pc' = IF df.round = Len(df.communicationScheme)
                        THEN "dfReturn" ELSE "dfRound"
    /\ UNCHANGED <<n, k, adj, eps, mode, entry, cut, gain, fm, numPEs, tw>>
    /\ UNCHANGED auxVars

\* line 1176: return comm->sum(gainSum) / 2
DFReturn ==
    /\ pc = "dfReturn"
    /\ gain' = SumOver(df.gainSum, 0 .. (numPEs - 1)) \div 2
    /\ df' = NoDF
    /\ pc' = "pgCheck"
    /\ UNCHANGED <<n, k, adj, eps, mode, entry, part, cut, fm, numPEs, tw>>
    /\ UNCHANGED auxVars

\* the loop test with gain >= 0 in place of gain > 0: a round without gain is
\* followed by another round
PGLoopNonNegative ==
    /\ pc = "pgLoop"
    /\ IF gain >= 0
       THEN pc' = IF mode = "replicated" THEN "fmCall" ELSE "dfCall"
       ELSE pc' = "done"
    /\ fm' = NoFM
    /\ UNCHANGED <<n, k, adj, eps, mode, entry, part, cut, gain, numPEs, df, tw>>
    /\ UNCHANGED auxVars

\* ------------------------------------------------------------------ partitionGraph
\* lines 210-227: the head of "while (gain > 0)" and the call of the next round
PGLoop ==
    /\ pc = "pgLoop"
    /\ IF gain > 0
       THEN pc' = IF mode = "replicated" THEN "fmCall" ELSE "dfCall"
       ELSE pc' = "done"
    /\ fm' = NoFM
    /\ UNCHANGED <<n, k, adj, eps, mode, entry, part, cut, gain, numPEs, df, tw>>
    /\ UNCHANGED auxVars

\* lines 228-230: the round has returned; recompute the cut and assert the gain
PGCheck ==
    /\ pc = "pgCheck"
    /\ LET oldCut == cut
           newCut == ComputeCut(adj, part, n)
       IN IF entry = "partitionGraph"
          THEN /\ cut' = newCut
               /\ pc' \in IF oldCut - gain = newCut THEN {"pgLoop"}
                           ELSE {"pgLoop", "abort"}
          ELSE /\ cut' = newCut
               /\ pc' = "done"
    /\ UNCHANGED <<n, k, adj, eps, mode, entry, part, gain, fm, numPEs, df, tw>>
    /\ UNCHANGED auxVars

\* ------------------------------------------------------------------ inputs
\* partitionGraph on a replicated graph: the SFC partition, gain = 1, cut computed
InitReplicated ==
    \E nn \in 2 .. MaxN :
    \E es \in SUBSET PairsOf(nn) :
    \E kk \in 1 .. nn :
    \E e \in Epsilons :
    \E inversePermutation \in SfcOrders(nn) :
        /\ n = nn /\ k = kk /\ eps = e
        /\ adj = AdjOf(nn, es)
        /\ mode = "replicated"
        /\ entry = "partitionGraph"
        /\ part = SfcPartition(inversePermutation, nn, kk)
        /\ cut = ComputeCut(AdjOf(nn, es), SfcPartition(inversePermutation, nn, kk), nn)
        /\ gain = 1
        /\ pc = "pgLoop"
        /\ fm = NoFM
        /\ numPEs = 1 /\ df = NoDF /\ tw = NoTW
        /\ cp = NoCP /\ bg = NoBG /\ km = NoKM /\ rb = NoRB /\ vl = NoVL /\ im = NoIM /\ pe = NoPE /\ su = NoSU /\ asg = NoAB /\ ic = NoIC /\ kc = NoKC /\ rl = NoRL

\* The vectors of block ids a direct call of one FM round with k = 2 is given:
\* block 0 holds the first s vertices. Every graph is enumerated, so every other
\* vector with these block sizes occurs up to a renaming of the vertices.
DirectPartitions(nn) ==
    {[v \in Vertices(nn) |-> IF v < s THEN 0 ELSE 1] : s \in 0 .. nn}

\* one FM round called directly on a replicated graph (fiducciaMattheysesRound)
InitFMRound ==
    \E nn \in 2 .. MaxN :
    \E es \in SUBSET PairsOf(nn) :
    \E e \in Epsilons :
    \E p \in DirectPartitions(nn) :
        /\ n = nn /\ k = 2 /\ eps = e
        /\ adj = AdjOf(nn, es)
        /\ mode = "replicated"
        /\ entry = "fmRound"
        /\ part = p
        /\ cut = ComputeCut(AdjOf(nn, es), p, nn)
        /\ gain = 0
        /\ pc = "fmCall"
        /\ fm = NoFM
        /\ numPEs = 1 /\ df = NoDF /\ tw = NoTW
        /\ cp = NoCP /\ bg = NoBG /\ km = NoKM /\ rb = NoRB /\ vl = NoVL /\ im = NoIM /\ pe = NoPE /\ su = NoSU /\ asg = NoAB /\ ic = NoIC /\ kc = NoKC /\ rl = NoRL

\* partitionGraph on a graph distributed over pes processes
InitDistributed ==
    \E nn \in 2 .. MaxN :
    \E es \in SUBSET PairsOf(nn) :
    \E kk \in 1 .. nn :
    \E pes \in {kk, kk + 1} :
    \E e \in Epsilons :
    \E inversePermutation \in SfcOrders(nn) :
        /\ n = nn /\ k = kk /\ eps = e
        /\ adj = AdjOf(nn, es)
        /\ mode = "distributed"
        /\ entry = "partitionGraph"
        /\ part = SfcPartition(inversePermutation, nn, kk)
        /\ cut = ComputeCut(AdjOf(nn, es), SfcPartition(inversePermutation, nn, kk), nn)
        /\ gain = 1
        /\ pc = "pgLoop"
        /\ fm = NoFM
        /\ numPEs = pes /\ df = NoDF /\ tw = NoTW
        /\ cp = NoCP /\ bg = NoBG /\ km = NoKM /\ rb = NoRB /\ vl = NoVL /\ im = NoIM /\ pe = NoPE /\ su = NoSU /\ asg = NoAB /\ ic = NoIC /\ kc = NoKC /\ rl = NoRL

\* Graphs whose block 0 is deeper than the breadth-first search of
\* getInterfaceNodes: a path through the vertices 0 .. 5 in one of the orders
\* below, whose first vertex is joined to vertices of block 1.
DeepN == 11

PathOrders == {<<0, 1, 2, 3, 4, 5>>, <<5, 4, 3, 2, 1, 0>>,
               <<4, 1, 0, 2, 3, 5>>, <<2, 0, 1, 3, 4, 5>>}

DeepEdges(order, cross, extra) ==
    {{order[i], order[i + 1]} : i \in 1 .. (Len(order) - 1)}
    \cup {{order[1], c} : c \in cross}
    \cup extra

\* partitionGraph on two processes on one of the deep graphs; the vertices are
\* numbered along the space-filling curve
InitDeep ==
    \E order \in PathOrders :
    \E cross \in (SUBSET {6, 7}) \ {{}} :
    \E extra \in SUBSET {{6, 7}, {7, 8}} :
    \E e \in Epsilons :
        /\ n = DeepN /\ k = 2 /\ eps = e
        /\ adj = AdjOf(DeepN, DeepEdges(order, cross, extra))
        /\ mode = "distributed"
        /\ entry = "partitionGraph"
        /\ part = SfcPartition([v \in Vertices(DeepN) |-> v], DeepN, 2)
        /\ cut = ComputeCut(AdjOf(DeepN, DeepEdges(order, cross, extra)),
                            SfcPartition([v \in Vertices(DeepN) |-> v], DeepN, 2), DeepN)
        /\ gain = 1
        /\ pc = "pgLoop"
        /\ fm = NoFM
        /\ numPEs = 2 /\ df = NoDF /\ tw = NoTW
        /\ cp = NoCP /\ bg = NoBG /\ km = NoKM /\ rb = NoRB /\ vl = NoVL /\ im = NoIM /\ pe = NoPE /\ su = NoSU /\ asg = NoAB /\ ic = NoIC /\ kc = NoKC /\ rl = NoRL

Init == InitReplicated \/ InitFMRound \/ InitDistributed \/ InitDeep

Next ==
    \/ PGLoop
    \/ FMStart
    \/ FMMove
    \/ FMFinish
    \/ PGCheck
    \/ DFStart
    \/ DFPrepare
    \/ DFIdle
    \/ DFCollect
    \/ DFCommit
    \/ DFReturn
    \/ TWStart
    \/ TWMove
    \/ TWFinish

Spec == Init /\ [][Next]_vars

\* partitionGraph (or the round called directly) has returned, thrown or aborted
Terminated == pc \in {"done", "abort", "error"}

\* The program is sequential on every process and its collective steps complete
\* when all processes have reached them, so a step that can be taken is taken. The
\* two steps of the loop itself carry weak fairness directly. For the steps inside
\* a round, weak fairness of Next is written with the enabling condition read from
\* pc: every state that is not Terminated has a step (no other state is without
\* successor), so ENABLED <<Next>>_vars is ~Terminated.
Fairness ==
    /\ WF_vars(PGLoop)
    /\ WF_vars(PGCheck)
    /\ ([]<>Terminated \/ []<><<Next>>_vars)

SpecFair == Spec /\ Fairness

\* ------------------------------------------------------------------ computeCommunicationPairings, statement by statement
\* Largest number of processes the schedule is computed for.
MaxP == 9

\* partitionGraph is not running
PGIdle ==
    /\ n = 0 /\ k = 0 /\ eps = <<0, 1>>
    /\ adj = <<>> /\ part = <<>>
    /\ mode = "none" /\ entry = "none" /\ pc = "idle"
    /\ cut = 0 /\ gain = 0 /\ numPEs = 0
    /\ fm = NoFM /\ df = NoDF /\ tw = NoTW

\* entry: p, rounds, upperPowerP, the three asserts, steps, the empty result
CPStart ==
    /\ cp.pc = "cpCall"
    /\ LET p == cp.maxPartID + 1
           upperPowerP == UpperPowerP(p)
           steps == upperPowerP - 1
           ok == upperPowerP >= p /\ upperPowerP < 2 * p /\ steps >= p - 1
       IN \E next \in (IF ok THEN {"cpStep"} ELSE {"cpStep", "abort"}) :
              cp' = [cp EXCEPT !.pc = next, !.p = p, !.steps = steps, !.step = 1,
                               !.result = <<>>]
    /\ UNCHANGED <<pgVars, bg, km, rb, vl, im, pe, su, asg, ic, kc, rl>>

\* head of the loop over step: a fresh commPerm, or the return of result
CPStep ==
    /\ cp.pc = "cpStep"
    /\ IF cp.step <= cp.steps
           THEN cp' = [cp EXCEPT !.pc = "cpEntry", !.i = 0, !.commPerm = <<>>]
           ELSE cp' = [cp EXCEPT !.pc = "done"]
    /\ UNCHANGED <<pgVars, bg, km, rb, vl, im, pe, su, asg, ic, kc, rl>>

\* one pass of the loop over i
CPEntry ==
    /\ cp.pc = "cpEntry"
    /\ cp.i < cp.p
    /\ cp' = [cp EXCEPT !.i = cp.i + 1,
                        !.commPerm = [j \in 0 .. cp.i |->
                                         IF j = cp.i THEN CommPartner(cp.i, cp.step, cp.p)
                                         ELSE cp.commPerm[j]]]
    /\ UNCHANGED <<pgVars, bg, km, rb, vl, im, pe, su, asg, ic, kc, rl>>

\* result.emplace_back(p, &commPerm[0]); step++
CPEmplace ==
    /\ cp.pc = "cpEntry"
    /\ cp.i = cp.p
    /\ cp' = [cp EXCEPT !.pc = "cpStep", !.step = cp.step + 1,
                        !.result = Append(cp.result, cp.commPerm)]
    /\ UNCHANGED <<pgVars, bg, km, rb, vl, im, pe, su, asg, ic, kc, rl>>

\* blocksToPEs with largest entry maxPartID
InitPair ==
    /\ PGIdle
    /\ rl = NoRL
    /\ kc = NoKC
    /\ ic = NoIC
    /\ asg = NoAB
    /\ su = NoSU
    /\ pe = NoPE
    /\ im = NoIM
    /\ vl = NoVL
    /\ rb = NoRB
    /\ \E maxPartID \in 0 .. (MaxP - 1) :
           cp = [NoCP EXCEPT !.pc = "cpCall", !.maxPartID = maxPartID]
    /\ bg = NoBG
    /\ km = NoKM

NextPair ==
    \/ CPStart
    \/ CPStep
    \/ CPEntry
    \/ CPEmplace

SpecPair == InitPair /\ [][NextPair]_vars

\* ------------------------------------------------------------------ getBlockGraph
\* Largest number of vertices and of processes getBlockGraph is run with.
BGMaxN == 3
\* Largest number of blocks getBlockGraph is run with.
BGMaxK == 3

\* the row distributions the inputs are drawn from: BLOCK and CYCLIC over p processes
RowDistributions(nn, p) ==
    {[v \in Vertices(nn) |-> v \div CeilDiv(nn, p)], [v \in Vertices(nn) |-> v % p]}

RECURSIVE LexSeq(_)
\* pairs <<i, j>> in the order the rows i and, in a row, the columns j are visited
LexSeq(S) ==
    IF S = {} THEN <<>>
    ELSE LET m == CHOOSE x \in S :
                     \A y \in S : x[1] < y[1] \/ (x[1] = y[1] /\ x[2] <= y[2])
         IN <<m>> \o LexSeq(S \ {m})

RECURSIVE AddEdges(_, _, _)
\* for every pair <<i, j>>: u = part(i), v = part(j); if u != v and (u, v) is not
\* yet in edges, push it back
AddEdges(edges, pairs, pt) ==
    IF pairs = <<>> THEN edges
    ELSE LET u == pt[Head(pairs)[1]]
             v == pt[Head(pairs)[2]]
             add_edge == u # v /\ <<u, v>> \notin Range(edges)
         IN AddEdges(IF add_edge THEN Append(edges, <<u, v>>) ELSE edges, Tail(pairs), pt)

\* getLocalBlockGraphEdges on process r: first the edges to local columns, then
\* the edges to non-local columns with the gathered block ids
GetLocalBlockGraphEdges(a, pt, owner, nn, r) ==
    LET local == {e \in Vertices(nn) \X Vertices(nn) :
                     owner[e[1]] = r /\ e[2] \in a[e[1]] /\ owner[e[2]] = r}
        nonLocal == {e \in Vertices(nn) \X Vertices(nn) :
                        owner[e[1]] = r /\ e[2] \in a[e[1]] /\ owner[e[2]] # r}
    IN AddEdges(AddEdges(<<>>, LexSeq(local), pt), LexSeq(nonLocal), pt)

RECURSIVE WritePart(_, _, _)
\* sendPartWrite[u*k + v] = 1 for every edge of blockEdges
WritePart(sendPart, blockEdges, kk) ==
    IF blockEdges = <<>> THEN sendPart
    ELSE WritePart([sendPart EXCEPT ![Head(blockEdges)[1] * kk + Head(blockEdges)[2]] = 1],
                   Tail(blockEdges), kk)

\* comm->shiftArray(recvPart, sendPart, 1): every process receives the array of its
\* neighbour in the ring; from which side is a property of the communicator
ShiftArray(send, from, p) ==
    [r \in 0 .. (p - 1) |->
        send[IF from = "left" THEN (r + p - 1) % p ELSE (r + 1) % p]]

\* one round less than there are processes
OneRoundLess(p) == p - 1

\* the number of rounds: comm->getSize()
BGRounds(p) == p

\* the k x k matrix built from the array: row i holds the columns j with array[i*k + j] > 0
MatrixOf(array, kk) ==
    [i \in Blocks(kk) |-> {j \in Blocks(kk) : array[i * kk + j] > 0}]

\* entry: getLocalBlockGraphEdges on every process (it throws when the matrix and the
\* partition are distributed differently), sendPart filled with zeros, recvPart allocated
BGLocalEdges ==
    /\ bg.pc = "bgCall"
    /\ \E distEqual \in BOOLEAN :
       \E from \in {"left", "right"} :
          IF ~distEqual
             THEN bg' = [bg EXCEPT !.pc = "error"]
             ELSE bg' = [bg EXCEPT
                      !.pc = "bgLoop",
                      !.from = from,
                      !.round = 0,
                      !.blockEdges = [r \in 0 .. (bg.p - 1) |->
                          GetLocalBlockGraphEdges(bg.adj, bg.part, bg.owner, bg.n, r)],
                      !.sendPart = [r \in 0 .. (bg.p - 1) |->
                          [x \in 0 .. (bg.k * bg.k - 1) |-> 0]],
                      !.received = FALSE]
    /\ UNCHANGED <<pgVars, cp, km, rb, vl, im, pe, su, asg, ic, kc, rl>>

\* one round: every process writes its edges into sendPart, the arrays are shifted
\* along the ring, and every process swaps sendPart and recvPart
BGRound ==
    /\ bg.pc = "bgLoop"
    /\ bg.round < BGRounds(bg.p)
    /\ LET written == [r \in 0 .. (bg.p - 1) |->
                          WritePart(bg.sendPart[r], bg.blockEdges[r], bg.k)]
           shifted == ShiftArray(written, bg.from, bg.p)
       IN bg' = [bg EXCEPT !.sendPart = shifted, !.recvPart = written,
                           !.received = TRUE, !.round = bg.round + 1]
    /\ UNCHANGED <<pgVars, cp, km, rb, vl, im, pe, su, asg, ic, kc, rl>>

\* after the loop: the matrix is built from recvPart; an array that was only
\* allocated holds any values
BGFinish ==
    /\ bg.pc = "bgLoop"
    /\ bg.round >= BGRounds(bg.p)
    /\ \E recvPart \in (IF bg.received THEN {bg.recvPart}
                        ELSE [0 .. (bg.p - 1) -> [0 .. (bg.k * bg.k - 1) -> {0, 1}]]) :
          bg' = [bg EXCEPT !.pc = "done",
                           !.matrix = [r \in 0 .. (bg.p - 1) |-> MatrixOf(recvPart[r], bg.k)]]
    /\ UNCHANGED <<pgVars, cp, km, rb, vl, im, pe, su, asg, ic, kc, rl>>

\* a graph of nn vertices distributed over p processes, a partition into k blocks
InitBG ==
    /\ PGIdle
    /\ rl = NoRL
    /\ kc = NoKC
    /\ ic = NoIC
    /\ asg = NoAB
    /\ su = NoSU
    /\ pe = NoPE
    /\ im = NoIM
    /\ vl = NoVL
    /\ rb = NoRB
    /\ cp = NoCP
    /\ km = NoKM
    /\ \E nn \in 1 .. BGMaxN :
       \E es \in SUBSET PairsOf(nn) :
       \E kk \in 1 .. BGMaxK :
       \E pt \in [Vertices(nn) -> Blocks(kk)] :
       \E p \in 1 .. BGMaxN :
       \E owner \in RowDistributions(nn, p) :
          bg = [NoBG EXCEPT !.pc = "bgCall", !.n = nn, !.k = kk, !.p = p,
                            !.adj = AdjOf(nn, es), !.part = pt, !.owner = owner]

NextBG ==
    \/ BGLocalEdges
    \/ BGRound
    \/ BGFinish

SpecBG == InitBG /\ [][NextBG]_vars

\* ------------------------------------------------------------------ KMeans::computePartition
\* Number of points of the inputs of computePartition (one process holds them all).
KMPoints == 3
\* Largest value of settings.maxKMeansIterations.
KMMaxIterations == 3

\* Real values are fractions <<num, den>> with den > 0.
RatLess(a, b) == a[1] * b[2] < b[1] * a[2]
RatMinOf(seq) ==
    CHOOSE x \in UNION {{m \in R : \A y \in R : ~RatLess(y, m)} : R \in {Range(seq)}} : TRUE
RatMaxOf(seq) ==
    CHOOSE x \in UNION {{m \in R : \A y \in R : ~RatLess(m, y)} : R \in {Range(seq)}} : TRUE
RatAbsDiff(a, b) ==
    <<IF a[1] * b[2] >= b[1] * a[2] THEN a[1] * b[2] - b[1] * a[2]
                                    ELSE b[1] * a[2] - a[1] * b[2],
      a[2] * b[2]>>

RECURSIVE RatSum(_)
RatSum(seq) ==
    IF seq = <<>> THEN <<0, 1>>
    ELSE LET r == RatSum(Tail(seq))
         IN <<Head(seq)[1] * r[2] + r[1] * Head(seq)[2], Head(seq)[2] * r[2]>>

\* the node weights of the inputs: the first weight is 1 for every point, the
\* second weight of point v is v + 1
KMNodeWeight(i, v) == IF i = 1 THEN 1 ELSE v + 1

\* the weight i of block b over the sampled points
KMBlockWeight(i, assignment, sampled, b) ==
    SumOver([v \in sampled |-> KMNodeWeight(i, v)], {v \in sampled : assignment[v] = b})

\* the weight i of all sampled points
KMSampledWeight(i, sampled) == SumOver([v \in sampled |-> KMNodeWeight(i, v)], sampled)

\* assignBlocks: imbalance[i] is the maximum over the blocks of
\* (blockWeight - optWeight) / optWeight, optWeight = adjustedBlockSizes[i][b] =
\* (nodeWeightSum[i] / numBlocks) * (sampled weight / nodeWeightSum[i])
KMImbalance(i, assignment, sampled, kk) ==
    LET maxWeight == Max({KMBlockWeight(i, assignment, sampled, b) : b \in Blocks(kk)})
    IN <<kk * maxWeight - KMSampledWeight(i, sampled), KMSampledWeight(i, sampled)>>

\* no block is heavier than adjustedBlockSizes[i][j] * (1 + epsilon)
KMAllBlocksBalanced(assignment, sampled, kk, nw, e) ==
    \A i \in 1 .. nw : \A b \in Blocks(kk) :
        ~(KMBlockWeight(i, assignment, sampled, b) * kk * e[2]
              > KMSampledWeight(i, sampled) * (e[2] + e[1]))

\* imbalanceDiff / numNodeWeights < 0.001
KMImbalanceSettled(old, new, nw) ==
    LET imbalanceDiff == RatSum([i \in 1 .. nw |-> RatAbsDiff(old[i], new[i])])
    IN imbalanceDiff[1] * 1000 < nw * imbalanceDiff[2]

RECURSIVE CeilLog2Ratio(_, _)
\* std::ceil(std::log2(a / b)) for a > b > 0
CeilLog2Ratio(a, b) == IF a <= b THEN 0 ELSE 1 + CeilLog2Ratio(a, 2 * b)

RECURSIVE KMSamples(_, _, _)
\* samples[0] = min(minNodes, localN); samples[i] = min(2 * samples[i-1], localN)
KMSamples(rounds, minNodes, localN) ==
    IF rounds = 0 THEN <<>>
    ELSE IF rounds = 1 THEN <<Min({minNodes, localN})>>
    ELSE LET prev == KMSamples(rounds - 1, minNodes, localN)
         IN Append(prev, Min({2 * prev[rounds - 1], localN}))

\* entry of computePartition up to the loop: minNodes, randomInitialization,
\* samplingRounds, samples, and the initial values of the loop variables
KMStart ==
    /\ km.pc = "kmCall"
    /\ LET minNodes == IF km.minSamplingNodes = -1 THEN km.n
                       ELSE km.minSamplingNodes * km.numBlocks
           randomInitialization == km.n > minNodes
           samplingRounds ==
               IF randomInitialization
                  THEN CeilLog2Ratio(km.n, km.minSamplingNodes * km.numBlocks) + 1
                  ELSE 0
           samples == KMSamples(samplingRounds, minNodes, km.n)
       IN km' = [km EXCEPT
              !.pc = "kmLoop",
              !.samplingRounds = samplingRounds,
              !.samples = IF samplingRounds > 0
                             THEN [samples EXCEPT ![samplingRounds] = km.n]
                             ELSE samples,
              !.iter = 0,
              !.balanced = FALSE,
              !.sampled = Vertices(km.n),
              !.imbalances = [i \in 1 .. km.numNodeWeights |-> <<1, 1>>],
              !.imbalancesOld = [i \in 1 .. km.numNodeWeights |-> <<0, 1>>],
              !.result = [v \in Vertices(km.n) |-> 0],
              !.mostBalancedResult = [v \in Vertices(km.n) |-> 0],
              !.minImbalance = <<km.numBlocks + 1, 1>>,
              !.minAchievedImbalance = km.epsilon]
    /\ UNCHANGED <<pgVars, cp, bg, rb, vl, im, pe, su, asg, ic, kc, rl>>

\* the solution kept after an iteration over all points:
\* <<mostBalancedResult, minImbalance, minAchievedImbalance>>
KMKeep(result, imbalances, mostBalancedResult, minImbalance, minAchievedImbalance, nw) ==
    LET currMinImbalance == RatMinOf(imbalances)
        currMaxImbalance == RatMaxOf(imbalances)
    IN IF nw < 2
          THEN IF RatLess(currMinImbalance, minImbalance)
                  THEN <<result, currMinImbalance, minAchievedImbalance>>
                  ELSE <<mostBalancedResult, minImbalance, minAchievedImbalance>>
          ELSE IF RatLess(currMaxImbalance, minAchievedImbalance)
                  THEN <<result, minImbalance, currMaxImbalance>>
                  ELSE IF RatLess(currMaxImbalance, minImbalance)
                          THEN <<result, currMaxImbalance, minAchievedImbalance>>
                          ELSE <<mostBalancedResult, minImbalance, minAchievedImbalance>>

\* a loop that goes on while the centers move or the blocks are unbalanced,
\* without the cap on the iterations
KMAgainWithoutCap(iter, samplingRounds, maxIterations, deltaAboveThreshold, balanced) ==
    \/ iter < samplingRounds
    \/ deltaAboveThreshold \/ ~balanced

\* a loop that goes on only while the centers move
KMAgainWhileCentersMove(iter, samplingRounds, maxIterations, deltaAboveThreshold, balanced) ==
    \/ iter < samplingRounds
    \/ iter < maxIterations /\ deltaAboveThreshold

\* while (iter < samplingRounds or (iter < maxIterations && (delta > threshold || !balanced)))
KMAgain(iter, samplingRounds, maxIterations, deltaAboveThreshold, balanced) ==
    \/ iter < samplingRounds
    \/ iter < maxIterations /\ (deltaAboveThreshold \/ ~balanced)

\* one pass of the do-while loop. assignBlocks assigns every sampled point to some
\* block (which one depends on coordinates, centers and influence) and reports the
\* imbalances of the assignment; delta is the movement of the centers.
KMIterate ==
    /\ km.pc = "kmLoop"
    /\ LET sampling == km.iter < km.samplingRounds
           count == IF sampling THEN km.samples[km.iter + 1] ELSE Cardinality(km.sampled)
       IN \E sampled \in {S \in SUBSET Vertices(km.n) :
                             /\ Cardinality(S) = count
                             /\ IF sampling /\ km.iter > 0 THEN km.sampled \subseteq S
                                ELSE sampling \/ S = km.sampled} :
          \E assigned \in [sampled -> Blocks(km.numBlocks)] :
          \E deltaAboveThreshold \in BOOLEAN :
             LET result == [v \in Vertices(km.n) |->
                               IF v \in sampled THEN assigned[v] ELSE km.result[v]]
                 imbalances == [i \in 1 .. km.numNodeWeights |->
                                   KMImbalance(i, result, sampled, km.numBlocks)]
                 balanced ==
                     \/ KMAllBlocksBalanced(result, sampled, km.numBlocks,
                                            km.numNodeWeights, km.epsilon)
                     \/ KMImbalanceSettled(km.imbalancesOld, imbalances, km.numNodeWeights)
                 lastIndexAtEnd == sampled = Vertices(km.n)
                 kept == IF km.keepMostBalanced /\ lastIndexAtEnd
                            THEN KMKeep(result, imbalances, km.mostBalancedResult,
                                        km.minImbalance, km.minAchievedImbalance,
                                        km.numNodeWeights)
                            ELSE <<km.mostBalancedResult, km.minImbalance,
                                   km.minAchievedImbalance>>
                 iter == km.iter + 1
                 again == KMAgain(iter, km.samplingRounds, km.maxIterations,
                                  deltaAboveThreshold, balanced)
             IN km' = [km EXCEPT
                    !.pc = IF again THEN "kmLoop" ELSE "kmReturn",
                    !.sampled = sampled,
                    !.result = result,
                    !.imbalances = imbalances,
                    !.imbalancesOld = imbalances,
                    !.imbalancesBefore = km.imbalancesOld,
                    !.deltaAboveThreshold = deltaAboveThreshold,
                    !.balanced = balanced,
                    !.mostBalancedResult = kept[1],
                    !.minImbalance = kept[2],
                    !.minAchievedImbalance = kept[3],
                    !.iter = iter,
                    !.produced = IF lastIndexAtEnd THEN km.produced \cup {result}
                                 ELSE km.produced]
    /\ UNCHANGED <<pgVars, cp, bg, rb, vl, im, pe, su, asg, ic, kc, rl>>

\* return mostBalancedResult if keepMostBalanced, else result
KMReturn ==
    /\ km.pc = "kmReturn"
    /\ km' = [km EXCEPT !.pc = "done",
                        !.returned = IF km.keepMostBalanced THEN km.mostBalancedResult
                                     ELSE km.result]
    /\ UNCHANGED <<pgVars, cp, bg, rb, vl, im, pe, su, asg, ic, kc, rl>>

\* computePartition on one process with KMPoints points, two blocks, one or two
\* node weights and equal target block weights
InitKM ==
    /\ PGIdle
    /\ rl = NoRL
    /\ kc = NoKC
    /\ ic = NoIC
    /\ asg = NoAB
    /\ su = NoSU
    /\ pe = NoPE
    /\ im = NoIM
    /\ vl = NoVL
    /\ rb = NoRB
    /\ cp = NoCP
    /\ bg = NoBG
    /\ \E nw \in 1 .. 2 :
       \E e \in Epsilons :
       \E keep \in BOOLEAN :
       \E minSamplingNodes \in {-1, 1} :
       \E maxIterations \in 0 .. KMMaxIterations :
          km = [NoKM EXCEPT !.pc = "kmCall", !.n = KMPoints, !.numBlocks = 2,
                            !.numNodeWeights = nw, !.epsilon = e,
                            !.keepMostBalanced = keep,
                            !.minSamplingNodes = minSamplingNodes,
                            !.maxIterations = maxIterations]

NextKM ==
    \/ KMStart
    \/ KMIterate
    \/ KMReturn

SpecKM == InitKM /\ [][NextKM]_vars

\* ------------------------------------------------------------------ KMeans::rebalance
\* Number of points of the inputs of rebalance (one process holds them all).
RBPoints == 3
centersToUse == 6
maxNumRestarts == 5

\* the node weights a point can have
RBWeights == {1, 2}

\* all orders of the elements of a set
PermSeqs(S) ==
    {s \in [1 .. Cardinality(S) -> S] :
        \A i, j \in 1 .. Cardinality(S) : i # j => s[i] # s[j]}

RECURSIVE RBWeightUpTo(_, _, _)
\* the sum of the weights f[v] of the points v <= i of S
RBWeightUpTo(f, S, i) ==
    IF i < 0 THEN 0
    ELSE (IF i \in S THEN f[i] ELSE 0) + RBWeightUpTo(f, S, i - 1)

\* the sum of weight w over all points; targetBlockWeights[w][b] is its
\* numBlocks-th part for every block b
RBTotalWeight(r, w) == RBWeightUpTo(r.weights[w], Vertices(r.n), r.n - 1)

\* (weight - optWeight)/optWeight of a block whose weight w is blockWeight
RBImbalance(r, w, blockWeight) ==
    <<r.numBlocks * blockWeight - RBTotalWeight(r, w), RBTotalWeight(r, w)>>

RBBlockWeight(r, w, pt, b) ==
    RBWeightUpTo(r.weights[w], {v \in Vertices(r.n) : pt[v] = b}, r.n - 1)

\* imbalancesPerBlock[.][b]; with one process the global block weights plus
\* blockWeightDifference are the block weights of localPart at every moment
RBImbalancesPerBlock(r, pt, b) ==
    [w \in 1 .. r.numWeights |-> RBImbalance(r, w, RBBlockWeight(r, w, pt, b))]

RBMaxImbalancePerBlock(r, pt, b) == RatMaxOf(RBImbalancesPerBlock(r, pt, b))

\* lexSort and squaredImbaSort: is point i sorted before point j, where maxImb
\* is maxImbalancePerBlock
RBSortLess(r, pt, maxImb, i, j) ==
    LET mi == maxImb[pt[i]]
        mj == maxImb[pt[j]]
    IN  IF r.method = "reb_lex"
        THEN IF pt[i] = pt[j] THEN r.mship[i] < r.mship[j]
             ELSE IF RatLess(mj, mi) THEN TRUE
             ELSE IF ~RatLess(mi, mj) THEN r.mship[i] < r.mship[j]
             ELSE FALSE
        ELSE mi[1] * mi[1] * mj[2] * mj[2] * r.mship[j]
                 > mj[1] * mj[1] * mi[2] * mi[2] * r.mship[i]

\* the orders std::sort can leave indices in
RBSortOrders(r, pt) ==
    UNION {{s \in PermSeqs(Vertices(r.n)) :
               \A x, y \in 1 .. r.n : x < y => ~RBSortLess(r, pt, maxImb, s[y], s[x])} :
           maxImb \in {[b \in Blocks(r.numBlocks) |->
                           RBMaxImbalancePerBlock(r, pt, b)]}}

\* thisBlockNewImbalances: the block of point p after the removal of p
RBThisBlockNewImbalances(r, pt, p) ==
    [w \in 1 .. r.numWeights |->
        RBImbalance(r, w, RBBlockWeight(r, w, pt, pt[p]) - r.weights[w][p])]

\* newImbalancesNewBlock: block c after it received point p
RBCandidateNewImbalances(r, pt, p, c) ==
    [w \in 1 .. r.numWeights |->
        RBImbalance(r, w, RBBlockWeight(r, w, pt, c) + r.weights[w][p])]

\* the loop over settings.epsilons: its continue goes on with the next e, and
\* after the last e the candidate is evaluated all the same
RBWeightLoopSkips(r, pt, c) == FALSE

\* the loop over the candidates does not ask whether the point has moved
RBLoopRunsAgain(r, pt, p) ==
    /\ RatLess(<<0, 1>>, RatMaxOf(RBThisBlockNewImbalances(r, pt, p)))
    /\ ~RatLess(RBMaxImbalancePerBlock(r, pt, pt[p]), <<-5, 100>>)

\* the loop over the candidates is entered and does not break at once
RBLoopRuns(r, pt, p) ==
    /\ RatLess(<<0, 1>>, RatMaxOf(RBThisBlockNewImbalances(r, pt, p)))
    /\ ~r.hasMoved[p]
    /\ ~RatLess(RBMaxImbalancePerBlock(r, pt, pt[p]), <<-5, 100>>)

\* fuzzSize: the number of centers fuzzify keeps for every point
RBFuzzSize(r) == Min({centersToUse, r.numBlocks})

\* the candidates of point p whose new imbalance is computed; fuzzyClustering[p]
\* holds the RBFuzzSize(r) centers closest to p, here all of them
RBCandidates(r, pt, p) ==
    IF ~RBLoopRuns(r, pt, p) THEN {}
    ELSE {c \in Blocks(r.numBlocks) :
             /\ c # pt[p]
             /\ ~RatLess(r.epsilon, RBMaxImbalancePerBlock(r, pt, c))
             /\ ~RBWeightLoopSkips(r, pt, c)}

\* bestBlock is the first candidate, in the order of fuzzyClustering[p], with the
\* least new maximum imbalance; the order is given by the coordinates, so each
\* candidate with the least value can be the first
RBBestBlocks(r, pt, p) ==
    UNION {IF DOMAIN new = {} THEN {pt[p]}
           ELSE {c \in DOMAIN new : \A d \in DOMAIN new : ~RatLess(new[d], new[c])} :
           new \in {[c \in RBCandidates(r, pt, p) |->
                        RatMaxOf(RBCandidateNewImbalances(r, pt, p, c))]}}

\* the block point p is in after its visit, where best is bestBlock
RBNewBlock(r, pt, p, best) ==
    IF best = pt[p] THEN pt[p]
    ELSE IF RatLess(RatMaxOf(RBThisBlockNewImbalances(r, pt, p)),
                    RatMaxOf(RBCandidateNewImbalances(r, pt, p, best)))
         THEN pt[p]
    ELSE best

RBOneRestartMore(thisRun) == thisRun <= maxNumRestarts

\* thisRun<maxNumRestarts
RBMayRestart(thisRun) == thisRun < maxNumRestarts

\* the setup of rebalance up to the loop
RBStart ==
    /\ rb.pc = "rbCall"
    /\ \E s \in RBSortOrders(rb, rb.localPart) :
          rb' = [rb EXCEPT
                   !.pc = IF RBFuzzSize(rb) \in {centersToUse, rb.numBlocks}
                          THEN "rbLoop" ELSE "abort",
                   !.indices = s,
                   !.numPointsToCheck =
                       (rb.n * rb.pointPerCent[1]) \div rb.pointPerCent[2],
                   !.hasMoved = [v \in Vertices(rb.n) |-> FALSE],
                   !.moves = [v \in Vertices(rb.n) |-> 0],
                   !.batchSize =
                       (rb.n * rb.batchPercent[1]) \div rb.batchPercent[2] + 1,
                   !.localI = 0, !.numMoves = 0, !.thisRun = 0, !.meDone = FALSE]
    /\ UNCHANGED <<pgVars, cp, bg, km, vl, im, pe, su, asg, ic, kc, rl>>

\* one pass of the loop "while( not allDone )"
RBStep ==
    /\ rb.pc = "rbLoop"
    /\ \E thisInd \in {rb.indices[rb.localI + 1]} :
       \E best \in RBBestBlocks(rb, rb.localPart, thisInd) :
       \E newBlock \in {RBNewBlock(rb, rb.localPart, thisInd, best)} :
       \E globalSum \in {(rb.localI + 1) % rb.batchSize = 0 \/ rb.meDone} :
       \E restart \in {globalSum /\ RBMayRestart(rb.thisRun)} :
       \E localI1 \in {IF restart THEN -1 ELSE rb.localI} :
       \E goOn \in {localI1 < rb.numPointsToCheck - 1} :
       LET myBlock == rb.localPart[thisInd]
           assertLE == ~RatLess(RBMaxImbalancePerBlock(rb, rb.localPart, myBlock),
                                RatMaxOf(RBThisBlockNewImbalances(rb, rb.localPart,
                                                                  thisInd)))
           sizesAgree == \/ RBCandidates(rb, rb.localPart, thisInd) = {}
                         \/ Len(rb.epsilons) = rb.numWeights
           moved == newBlock # myBlock
           pt1 == [rb.localPart EXCEPT ![thisInd] = newBlock]
       IN  IF ~assertLE
           THEN rb' = [rb EXCEPT !.pc = "error"]
           ELSE \E s \in (IF restart THEN RBSortOrders(rb, pt1) ELSE {rb.indices}) :
                \E nextPc \in (IF sizesAgree THEN {"rbLoop"} ELSE {"rbLoop", "abort"}) :
                   rb' = [rb EXCEPT
                            !.pc = IF nextPc = "abort" THEN "abort"
                                   ELSE IF goOn THEN "rbLoop" ELSE "rbReturn",
                            !.localPart = pt1,
                            !.hasMoved = [rb.hasMoved EXCEPT
                                            ![thisInd] = rb.hasMoved[thisInd] \/ moved],
                            !.numMoves = rb.numMoves + (IF moved THEN 1 ELSE 0),
                            !.moves = [rb.moves EXCEPT
                                         ![thisInd] = @ + (IF moved THEN 1 ELSE 0)],
                            !.indices = s,
                            !.thisRun = rb.thisRun + (IF restart THEN 1 ELSE 0),
                            !.batchSize =
                                IF globalSum /\ ~restart
                                THEN Min({(rb.batchSize * 105) \div 100,
                                          Max({rb.n \div 1000 + 1, 1000})})
                                ELSE rb.batchSize,
                            !.localI = IF goOn THEN localI1 + 1 ELSE localI1,
                            !.meDone = ~goOn,
                            !.visit = [point |-> thisInd, from |-> myBlock,
                                       to |-> newBlock, before |-> rb.localPart,
                                       hadMoved |-> rb.hasMoved[thisInd]]]
    /\ UNCHANGED <<pgVars, cp, bg, km, vl, im, pe, su, asg, ic, kc, rl>>

\* the end of rebalance: localPart becomes the partition, numMoves is returned
RBReturn ==
    /\ rb.pc = "rbReturn"
    /\ rb' = [rb EXCEPT
                !.pc = IF \A v \in Vertices(rb.n) :
                              rb.localPart[v] \in Blocks(rb.numBlocks)
                       THEN "done" ELSE "abort",
                !.partition = rb.localPart,
                !.returned = rb.numMoves]
    /\ UNCHANGED <<pgVars, cp, bg, km, vl, im, pe, su, asg, ic, kc, rl>>

\* the node weights, membership values and settings of a call
RBInput(nn, kk, weights, mship, pt, e, es, method, batchPercent, pointPerCent) ==
    [NoRB EXCEPT !.pc = "rbCall", !.n = nn, !.numBlocks = kk,
                 !.numWeights = Len(weights), !.weights = weights, !.mship = mship,
                 !.localPart = pt, !.partition = pt, !.epsilon = e, !.epsilons = es,
                 !.method = method, !.batchPercent = batchPercent,
                 !.pointPerCent = pointPerCent]

\* RBPoints points with one weight, drawn from RBWeights, in three blocks, point
\* 0 in block 0
InitRBSmall ==
    \E w1 \in [Vertices(RBPoints) -> RBWeights] :
    \E pt \in {f \in [Vertices(RBPoints) -> Blocks(3)] : f[0] = 0} :
    \E e \in Epsilons :
    \E perWeight \in BOOLEAN :
    \E method \in {"reb_lex", "reb_sqImba"} :
    \E batchPercent \in {<<0, 1>>, <<1, 1>>} :
    \E pointPerCent \in {<<1, 2>>, <<1, 1>>} :
       rb = RBInput(RBPoints, 3, <<w1>>,
                    [v \in Vertices(RBPoints) |-> v + 1], pt, e,
                    IF perWeight THEN <<(<<0, 1>>)>> ELSE <<>>,
                    method, batchPercent, pointPerCent)

\* three points with two weights in two blocks: the second block is below its
\* target in the first weight and above it in the second
InitRBTwoWeights ==
    \E e \in Epsilons :
    \E es \in {<<>>, <<(<<0, 1>>), (<<0, 1>>)>>, <<(<<1, 2>>), (<<1, 2>>)>>} :
    \E method \in {"reb_lex", "reb_sqImba"} :
    \E mship \in {[v \in Vertices(3) |-> v + 1], [v \in Vertices(3) |-> 1]} :
       rb = RBInput(3, 2,
                    <<[v \in Vertices(3) |-> <<1, 11, 4>>[v + 1]],
                      [v \in Vertices(3) |-> <<1, 5, 10>>[v + 1]]>>,
                    mship, [v \in Vertices(3) |-> <<0, 0, 1>>[v + 1]], e, es,
                    method, <<1, 1>>, <<1, 1>>)

\* four points with one weight in three blocks, a global sum after every point:
\* the light point 0 leaves the heavy block 0 first, the heavier point 1 follows it,
\* and the block they are in then is heavy enough for point 0 to be considered again
InitRBChain ==
    \E e \in Epsilons :
    \E method \in {"reb_lex", "reb_sqImba"} :
       rb = RBInput(4, 3, <<[v \in Vertices(4) |-> <<1, 4, 5, 1>>[v + 1]]>>,
                    [v \in Vertices(4) |-> v + 1],
                    [v \in Vertices(4) |-> <<0, 0, 0, 2>>[v + 1]], e, <<>>,
                    method, <<0, 1>>, <<1, 1>>)

InitRB ==
    /\ PGIdle
    /\ rl = NoRL
    /\ kc = NoKC
    /\ ic = NoIC
    /\ asg = NoAB
    /\ su = NoSU
    /\ pe = NoPE
    /\ im = NoIM
    /\ vl = NoVL
    /\ cp = NoCP
    /\ bg = NoBG
    /\ km = NoKM
    /\ (InitRBSmall \/ InitRBTwoWeights \/ InitRBChain)

NextRB ==
    \/ RBStart
    \/ RBStep
    \/ RBReturn

SpecRB == InitRB /\ [][NextRB]_vars

\* rebalance under the scheduling of a running program: a call that can take a
\* step takes it
SpecRBFair == SpecRB /\ WF_vars(NextRB)

\* ------------------------------------------------------------------ validation and collectives
\* Largest number of vertices (points) and of processes of the calls below.
VLMaxN == 4
VLMaxP == 3

Procs(p) == 0 .. (p - 1)

\* getLocalSize() of a distribution on process i
LocalSize(owner, i) == Cardinality({v \in DOMAIN owner : owner[v] = i})

\* the steps of a call that matter for its collectives: a collective operation,
\* a validation that throws where ok is false, local work that is defined where
\* safe is true, and the return
Collective(name) == [kind |-> "collective", name |-> name]
Validation(name, ok) == [kind |-> "check", name |-> name, ok |-> ok]
LocalWork(name, safe) == [kind |-> "local", name |-> name, safe |-> safe]
Return == [kind |-> "return", name |-> "return"]

\* Distribution::isEqual
IsEqual(distA, distB) == distA = distB

\* computeCut compares the local sizes only
SameLocalSizes(v, i) == LocalSize(v.partDist, i) = LocalSize(v.inputDist, i)

\* assert(partDist->isLocal(globalI)) for the rows of process i
RowsLocalInPart(v, i) ==
    \A x \in Vertices(v.n) : v.inputDist[x] = i => v.partDist[x] = i

ComputeCutSteps(v) ==
    <<Collective("part.max"),
      Validation("local sizes", [i \in Procs(v.p) |-> SameLocalSizes(v, i)]),
      Collective("updateHalo"),
      LocalWork("rows", [i \in Procs(v.p) |-> RowsLocalInPart(v, i)]),
      Collective("sum"),
      Collective("max"),
      Return>>

GetNumBorderInnerNodesSteps(v) ==
    <<Collective("part.max"),
      Validation("isEqual", [i \in Procs(v.p) |-> IsEqual(v.inputDist, v.partDist)]),
      Collective("updateHalo"),
      LocalWork("rows", [i \in Procs(v.p) |-> TRUE]),
      Collective("sumImpl"),
      Collective("sumImpl"),
      Collective("max"),
      Return>>

ComputeCommVolumeSteps(v) ==
    <<Validation("isEqual", [i \in Procs(v.p) |-> IsEqual(v.inputDist, v.partDist)]),
      Collective("updateHalo"),
      LocalWork("rows", [i \in Procs(v.p) |-> TRUE]),
      Collective("sumImpl"),
      Collective("max"),
      Return>>

\* nodeWeightSum[i] > blockWeightSum*(1+settings.epsilon); every node weight is 1
WeightsFit(v, w) ==
    ~(v.n * v.epsilon[2] > v.blockWeightSum[w] * (v.epsilon[2] + v.epsilon[1]))

RECURSIVE WeightSteps(_, _)
\* the loop over the node weights: the sum of weight w, then its validation
WeightSteps(v, w) ==
    IF w > v.numNodeWeights THEN <<>>
    ELSE <<Collective("nodeWeights.sum"),
           Validation("weights fit", [i \in Procs(v.p) |-> WeightsFit(v, w)])>>
         \o WeightSteps(v, w + 1)

\* computePartition up to the end of its validation; inputDist is the
\* distribution of the coordinates, partDist the one of the node weights
ComputePartitionSteps(v) ==
    (IF v.debugMode /\ ~v.repartition
     THEN <<Collective("partition.max"),
            Validation("numOldBlocks", [i \in Procs(v.p) |->
                                            v.numOldBlocks - 1 = v.maxPart])>>
     ELSE <<>>)
    \o <<Validation("node weights size", [i \in Procs(v.p) |-> SameLocalSizes(v, i)])>>
    \o WeightSteps(v, 1)
    \o <<LocalWork("k-means", [i \in Procs(v.p) |-> TRUE]), Return>>

StepsOf(v) ==
    IF v.op = "computeCut" THEN ComputeCutSteps(v)
    ELSE IF v.op = "getNumBorderInnerNodes" THEN GetNumBorderInnerNodesSteps(v)
    ELSE IF v.op = "computeCommVolume" THEN ComputeCommVolumeSteps(v)
    ELSE ComputePartitionSteps(v)

\* process i is about to execute a step of the given kind
VLAt(i, kind) ==
    /\ vl.pc = "running"
    /\ i \in Procs(vl.p)
    /\ vl.status[i] = "run"
    /\ vl.steps[vl.at[i]].kind = kind

\* process i enters a collective operation and waits in it
VLEnter ==
    /\ \E i \in Procs(vl.p) :
          /\ VLAt(i, "collective")
          /\ vl' = [vl EXCEPT !.status[i] = "in", !.entered[i] = vl.entered[i] + 1]
    /\ UNCHANGED <<pgVars, cp, bg, km, rb, im, pe, su, asg, ic, kc, rl>>

\* all processes are in the same collective operation: it completes
VLComplete ==
    /\ vl.pc = "running"
    /\ \A i \in Procs(vl.p) : vl.status[i] = "in" /\ vl.at[i] = vl.at[0]
    /\ vl' = [vl EXCEPT !.status = [i \in Procs(vl.p) |-> "run"],
                        !.at = [i \in Procs(vl.p) |-> vl.at[i] + 1]]
    /\ UNCHANGED <<pgVars, cp, bg, km, rb, im, pe, su, asg, ic, kc, rl>>

\* process i validates: it goes on or throws
VLCheck ==
    /\ \E i \in Procs(vl.p) :
          /\ VLAt(i, "check")
          /\ vl' = IF vl.steps[vl.at[i]].ok[i]
                   THEN [vl EXCEPT !.at[i] = vl.at[i] + 1]
                   ELSE [vl EXCEPT !.status[i] = "threw",
                                   !.ownCollectives[i] = vl.entered[i],
                                   !.othersInCollective[i] =
                                       \E j \in Procs(vl.p) : j # i /\ vl.entered[j] > 0]
    /\ UNCHANGED <<pgVars, cp, bg, km, rb, im, pe, su, asg, ic, kc, rl>>

\* process i does its local work; where an assert of it fails or it reads
\* outside of an array the process may also end
VLLocal ==
    /\ \E i \in Procs(vl.p) :
          /\ VLAt(i, "local")
          /\ \E outcome \in (IF vl.steps[vl.at[i]].safe[i] THEN {"run"}
                             ELSE {"run", "abort"}) :
                vl' = IF outcome = "run" THEN [vl EXCEPT !.at[i] = vl.at[i] + 1]
                      ELSE [vl EXCEPT !.status[i] = "abort"]
    /\ UNCHANGED <<pgVars, cp, bg, km, rb, im, pe, su, asg, ic, kc, rl>>

\* process i returns a value
VLReturn ==
    /\ \E i \in Procs(vl.p) :
          /\ VLAt(i, "return")
          /\ vl' = [vl EXCEPT !.status[i] = "returned"]
    /\ UNCHANGED <<pgVars, cp, bg, km, rb, im, pe, su, asg, ic, kc, rl>>

VLCall(v) ==
    [v EXCEPT !.pc = "running", !.steps = StepsOf(v),
              !.at = [i \in Procs(v.p) |-> 1],
              !.status = [i \in Procs(v.p) |-> "run"],
              !.entered = [i \in Procs(v.p) |-> 0],
              !.ownCollectives = [i \in Procs(v.p) |-> 0],
              !.othersInCollective = [i \in Procs(v.p) |-> FALSE]]

\* a metric of a graph of nn vertices and a partition, on p processes
InitMetric ==
    \E op \in {"computeCut", "getNumBorderInnerNodes", "computeCommVolume"} :
    \E p \in 2 .. VLMaxP :
    \E nn \in 2 .. VLMaxN :
    \E inputDist \in RowDistributions(nn, p) :
    \E partDist \in RowDistributions(nn, p) :
       vl = VLCall([NoVL EXCEPT !.op = op, !.p = p, !.n = nn,
                                !.inputDist = inputDist, !.partDist = partDist])

\* computePartition of nn points of weight 1 on p processes
InitComputePartition ==
    \E p \in 2 .. VLMaxP :
    \E nn \in 2 .. VLMaxN :
    \E inputDist \in RowDistributions(nn, p) :
    \E partDist \in RowDistributions(nn, p) :
    \E numNodeWeights \in 1 .. 2 :
    \E blockWeightSum \in [1 .. numNodeWeights -> {nn \div 2, nn}] :
    \E e \in Epsilons :
    \E debugMode \in BOOLEAN :
    \E maxPart \in 0 .. 1 :
       vl = VLCall([NoVL EXCEPT !.op = "computePartition", !.p = p, !.n = nn,
                                !.inputDist = inputDist, !.partDist = partDist,
                                !.numNodeWeights = numNodeWeights,
                                !.blockWeightSum = blockWeightSum, !.epsilon = e,
                                !.debugMode = debugMode, !.repartition = FALSE,
                                !.numOldBlocks = 1, !.maxPart = maxPart])

InitVal ==
    /\ PGIdle
    /\ rl = NoRL
    /\ kc = NoKC
    /\ ic = NoIC
    /\ asg = NoAB
    /\ su = NoSU
    /\ pe = NoPE
    /\ im = NoIM
    /\ cp = NoCP
    /\ bg = NoBG
    /\ km = NoKM
    /\ rb = NoRB
    /\ (InitMetric \/ InitComputePartition)

NextVal ==
    \/ VLEnter
    \/ VLComplete
    \/ VLCheck
    \/ VLLocal
    \/ VLReturn

SpecVal == InitVal /\ [][NextVal]_vars

\* ------------------------------------------------------------------ computeImbalance
\* Largest number of vertices and of blocks computeImbalance is called with.
IMMaxN == 4
IMMaxBlocks == 3

\* subsetSizes after the loop over the local values of process i; a replicated
\* vector has all values on every process
IMLocalSubsetSize(v, i, b) ==
    Cardinality({x \in Vertices(v.n) :
                    v.part[x] = b /\ (v.replicated \/ v.owner[x] = i)})

\* subsetSizes after the sum over the processes, which a replicated vector skips
IMSubsetSize(v, b) ==
    IF v.replicated THEN IMLocalSubsetSize(v, 0, b)
    ELSE SumOver([i \in Procs(v.p) |-> IMLocalSubsetSize(v, i, b)], Procs(v.p))

IMMaxBlockSize(v) == Max({IMSubsetSize(v, b) : b \in Blocks(v.k)})

\* std::ceil(n / k) with n and k of IndexType: the quotient is already an integer
IMOptSizeOfIntegers(nn, kk) == nn \div kk

\* std::ceil(ValueType(globalN) / k)
IMOptSize(nn, kk) == CeilDiv(nn, kk)

\* (maxBlockSize - optSize)/ optSize with all operands of IndexType
IMQuotientOfIntegers(maxBlockSize, optSize) == <<(maxBlockSize - optSize) \div optSize, 1>>

\* ValueType(maxBlockSize - optSize)/ optSize
IMQuotient(maxBlockSize, optSize) == <<maxBlockSize - optSize, optSize>>

\* part.max() and part.min()
IMMaxK(v) == Max({v.part[x] : x \in Vertices(v.n)})
IMMinK(v) == Min({v.part[x] : x \in Vertices(v.n)})

\* ParcoRepart::computeImbalance(part, k)
IMComputeImbalance ==
    /\ im.pc = "call"
    /\ im.function = "ParcoRepart::computeImbalance"
    /\ IF IMMaxK(im) >= im.k
       THEN im' = [im EXCEPT !.pc = "error"]
       ELSE IF IMOptSizeOfIntegers(im.n, im.k) = 0
       THEN \* integer division by zero: the process is stopped, or the division
            \* yields 0
            \E outcome \in {"crash", "done"} :
               im' = [im EXCEPT !.pc = outcome, !.result = <<0, 1>>]
       ELSE im' = [im EXCEPT
                     !.pc = "done",
                     !.result = IMQuotientOfIntegers(IMMaxBlockSize(im),
                                    IMOptSizeOfIntegers(im.n, im.k))]
    /\ UNCHANGED <<pgVars, cp, bg, km, rb, vl, pe, su, asg, ic, kc, rl>>

\* GraphUtils::computeImbalance(part, k, nodeWeights) with an empty nodeWeights
IMComputeImbalanceGraphUtils ==
    /\ im.pc = "call"
    /\ im.function = "GraphUtils::computeImbalance"
    /\ IF IMMinK(im) < 0 \/ IMMaxK(im) >= im.k
       THEN im' = [im EXCEPT !.pc = "error"]
       ELSE im' = [im EXCEPT
                     !.pc = IF IMMaxBlockSize(im) >= IMOptSize(im.n, im.k)
                            THEN "done" ELSE "abort",
                     !.result = IMQuotient(IMMaxBlockSize(im), IMOptSize(im.n, im.k))]
    /\ UNCHANGED <<pgVars, cp, bg, km, rb, vl, pe, su, asg, ic, kc, rl>>

\* a vector of nn block ids, replicated or distributed over p processes; the id
\* kk is one too many for kk blocks
InitIM ==
    /\ PGIdle
    /\ rl = NoRL
    /\ kc = NoKC
    /\ ic = NoIC
    /\ asg = NoAB
    /\ su = NoSU
    /\ pe = NoPE
    /\ cp = NoCP
    /\ bg = NoBG
    /\ km = NoKM
    /\ rb = NoRB
    /\ vl = NoVL
    /\ \E function \in {"ParcoRepart::computeImbalance", "GraphUtils::computeImbalance"} :
       \E nn \in 1 .. IMMaxN :
       \E kk \in 1 .. IMMaxBlocks :
       \E pt \in [Vertices(nn) -> 0 .. kk] :
       \E p \in 1 .. 2 :
       \E owner \in RowDistributions(nn, p) :
       \E replicated \in BOOLEAN :
          im = [NoIM EXCEPT !.pc = "call", !.function = function, !.n = nn, !.k = kk,
                            !.part = pt, !.p = p, !.owner = owner,
                            !.replicated = replicated]

NextIM ==
    \/ IMComputeImbalance
    \/ IMComputeImbalanceGraphUtils

SpecIM == InitIM /\ [][NextIM]_vars

\* ------------------------------------------------------------------ getPEGraph
\* Largest number of vertices and of processes getPEGraph is run with.
PEMaxN == 3
PEMaxP == 3

\* the entries (row, column) of the local rows of process i
PELocalRowEntries(v, i) ==
    LexSeq({e \in Vertices(v.n) \X Vertices(v.n) :
               /\ v.owner[e[1]] = i
               /\ e[2] \in v.adj[e[1]]})

\* the entries (row, column) of the local rows of process i whose column is not
\* local, in the order of the rows and, in a row, of the columns
PENonLocalEntries(v, i) ==
    LexSeq({e \in Vertices(v.n) \X Vertices(v.n) :
               /\ v.owner[e[1]] = i
               /\ e[2] \in v.adj[e[1]]
               /\ v.owner[e[2]] # i})

\* nonLocalNeighbors: the non-local columns of the local rows, as an ordered set
NonLocalNeighbors(v, i) ==
    SortedSeq({e[2] : e \in Range(PENonLocalEntries(v, i))})

\* dist->computeOwners
ComputeOwners(v, indices) == [x \in 1 .. Len(indices) |-> v.owner[indices[x]]]

\* the row of length numPEs that has the value 1 at the processes of owners;
\* setting a value twice leaves it 1
PERowOf(v, owners) ==
    [q \in Procs(v.p) |->
        IF \E x \in 1 .. Len(owners) : owners[x] = q THEN 1 ELSE 0]

\* GraphUtils::getPEGraph on process i: the owners of the non-local neighbours,
\* sorted and without duplicates, become the columns of the local row
PERowGraphUtils ==
    /\ pe.pc = "rows"
    /\ pe.function = "GraphUtils::getPEGraph"
    /\ \E i \in Procs(pe.p) :
          /\ pe.rows[i] = <<>>
          /\ LET owners == ComputeOwners(pe, NonLocalNeighbors(pe, i))
                 neighborPEs == SortedSeq(Range(owners))
             IN pe' = [pe EXCEPT !.rows[i] = PERowOf(pe, neighborPEs)]
    /\ UNCHANGED <<pgVars, cp, bg, km, rb, vl, im, su, asg, ic, kc, rl>>

\* ParcoRepart::getPEGraph on process i: for the owner of every non-local entry
\* of the local rows the value of the local row is set
PERowParcoRepart ==
    /\ pe.pc = "rows"
    /\ pe.function = "ParcoRepart::getPEGraph"
    /\ \E i \in Procs(pe.p) :
          /\ pe.rows[i] = <<>>
          /\ LET indices == [x \in 1 .. Len(PENonLocalEntries(pe, i)) |->
                                PENonLocalEntries(pe, i)[x][2]]
                 owners == ComputeOwners(pe, indices)
             IN pe' = [pe EXCEPT !.rows[i] = PERowOf(pe, owners)]
    /\ UNCHANGED <<pgVars, cp, bg, km, rb, vl, im, su, asg, ic, kc, rl>>

\* every process has its row: the distributed matrix is returned
PEReturn ==
    /\ pe.pc = "rows"
    /\ \A i \in Procs(pe.p) : pe.rows[i] # <<>>
    /\ pe' = [pe EXCEPT !.pc = "done", !.PEgraph = pe.rows]
    /\ UNCHANGED <<pgVars, cp, bg, km, rb, vl, im, su, asg, ic, kc, rl>>

\* a matrix of nn rows without diagonal entries, distributed over p processes
InitPE ==
    /\ PGIdle
    /\ rl = NoRL
    /\ kc = NoKC
    /\ ic = NoIC
    /\ asg = NoAB
    /\ su = NoSU
    /\ cp = NoCP
    /\ bg = NoBG
    /\ km = NoKM
    /\ rb = NoRB
    /\ vl = NoVL
    /\ im = NoIM
    /\ \E function \in {"GraphUtils::getPEGraph", "ParcoRepart::getPEGraph"} :
       \E nn \in 1 .. PEMaxN :
       \E p \in 1 .. PEMaxP :
       \E a \in [Vertices(nn) -> SUBSET Vertices(nn)] :
       \E owner \in RowDistributions(nn, p) :
          /\ \A x \in Vertices(nn) : x \notin a[x]
          /\ pe = [NoPE EXCEPT !.pc = "rows", !.function = function, !.n = nn,
                               !.p = p, !.adj = a, !.owner = owner,
                               !.rows = [i \in Procs(p) |-> <<>>]]

NextPE ==
    \/ PERowGraphUtils
    \/ PERowParcoRepart
    \/ PEReturn

SpecPE == InitPE /\ [][NextPE]_vars

\* ------------------------------------------------------------------ KMeans::computePartition, set-up of sampling and bounds
\* Largest number of processes, of local points, of new blocks and the largest
\* settings.minSamplingNodes the set-up is run with.
SUMaxP == 3
SUMaxLocalN == 2
SUMaxBlocks == 2
SUMaxSamplingNodes == 2

\* minNodes of computePartition in KMeans.h
minNodesOfHeader == 500

SUGlobalN(v) == SumOver(v.localN, Procs(v.p))

\* IndexType minNodes = settings.minSamplingNodes*avgBlocksPerPE, or localN
SUMinNodes(v, i) ==
    IF v.minSamplingNodes = -1
       THEN v.localN[i]
       ELSE (v.minSamplingNodes * v.totalNumNewBlocks) \div v.p

RECURSIVE SUHeaderSamples(_, _)
\* KMeans.h: samples[0] = minNodes, samples[i] = min(IndexType(samples[i-1]*1.415), localN)
SUHeaderSamples(rounds, localN) ==
    IF rounds = 1 THEN <<minNodesOfHeader>>
    ELSE LET prev == SUHeaderSamples(rounds - 1, localN)
         IN Append(prev, Min({(prev[rounds - 1] * 1415) \div 1000, localN}))

\* what follows an assert: the next status if it holds; if it fails the abort, or
\* the next status in a build without asserts
SUAfterAssert(ok, next) == IF ok THEN {next} ELSE {next, "abort"}

\* KMeans.cpp, one process from the copy of the coordinates to
\* comm->all(localN > minNodes): the local bounding box, the two vectors of bounds,
\* minNodes and its assert
SUEnter ==
    /\ su.pc = "running"
    /\ su.function = "KMeans.cpp"
    /\ \E i \in Procs(su.p) :
          /\ su.status[i] = "start"
          /\ \E next \in SUAfterAssert(SUMinNodes(su, i) > 0, "all") :
                su' = [su EXCEPT !.status[i] = next,
                                 !.outOfRange[i] = (su.localN[i] = 0),
                                 !.boundsSize[i] = su.localN[i],
                                 !.minNodes[i] = SUMinNodes(su, i)]
    /\ UNCHANGED <<pgVars, cp, bg, km, rb, vl, im, pe, asg, ic, kc, rl>>

\* comm->all(localN > minNodes) completes when every process has entered it
SUAll ==
    /\ su.pc = "running"
    /\ \A i \in Procs(su.p) : su.status[i] = "all"
    /\ su' = [su EXCEPT !.status = [i \in Procs(su.p) |-> "sampling"],
                        !.randomInitialization =
                            \A i \in Procs(su.p) : su.localN[i] > su.minNodes[i]]
    /\ UNCHANGED <<pgVars, cp, bg, km, rb, vl, im, pe, asg, ic, kc, rl>>

\* KMeans.cpp, one process after the collective: samplingRounds and samples; with
\* settings.verbose process 0 prints *localIndices.end()
SUSampling ==
    /\ su.pc = "running"
    /\ \E i \in Procs(su.p) :
          /\ su.status[i] = "sampling"
          /\ LET samplingRounds ==
                     IF su.randomInitialization
                        THEN CeilLog2Ratio(SUGlobalN(su),
                                           su.minSamplingNodes * su.totalNumNewBlocks) + 1
                        ELSE 0
                 samples == KMSamples(samplingRounds, su.minNodes[i], su.localN[i])
             IN su' = [su EXCEPT
                    !.status[i] = "loop",
                    !.samplingRounds[i] = samplingRounds,
                    !.samples[i] = IF samplingRounds > 0
                                      THEN [samples EXCEPT ![samplingRounds] = su.localN[i]]
                                      ELSE samples,
                    !.outOfRange[i] = su.outOfRange[i] \/ (su.verbose /\ i = 0)]
    /\ UNCHANGED <<pgVars, cp, bg, km, rb, vl, im, pe, asg, ic, kc, rl>>

\* KMeans.h, one process from the bounding box to the loop: the two vectors of
\* bounds, samplingRounds, samples, and assert(samples[samplingRounds-1] == localN),
\* which reads samples[-1] when there are no sampling rounds: the value read is
\* any value, or the read faults
SUHeader ==
    /\ su.pc = "running"
    /\ su.function = "KMeans.h"
    /\ \E i \in Procs(su.p) :
          /\ su.status[i] = "start"
          /\ LET localN == su.localN[i]
                 samplingRounds ==
                     IF localN > minNodesOfHeader
                        THEN 2 * CeilLog2Ratio(localN, minNodesOfHeader) + 1
                        ELSE 0
                 samples == IF samplingRounds > 0
                               THEN SUHeaderSamples(samplingRounds, localN)
                               ELSE <<>>
             IN \E next \in IF samplingRounds > 0
                               THEN SUAfterAssert(samples[samplingRounds] = localN, "loop")
                               ELSE {"loop", "abort", "crash"} :
                   su' = [su EXCEPT
                          !.status[i] = next,
                          !.outOfRange[i] = (localN = 0) \/ (samplingRounds = 0),
                          !.boundsSize[i] = localN,
                          !.minNodes[i] = minNodesOfHeader,
                          !.samplingRounds[i] = samplingRounds,
                          !.samples[i] = samples]
    /\ UNCHANGED <<pgVars, cp, bg, km, rb, vl, im, pe, asg, ic, kc, rl>>

\* every process is at its loop: the set-up is over
SUDone ==
    /\ su.pc = "running"
    /\ \A i \in Procs(su.p) : su.status[i] = "loop"
    /\ su' = [su EXCEPT !.pc = "loop"]
    /\ UNCHANGED <<pgVars, cp, bg, km, rb, vl, im, pe, asg, ic, kc, rl>>

SUCall(function, p, localN, kk, msn, verbose) ==
    su = [NoSU EXCEPT !.pc = "running", !.function = function, !.p = p,
                      !.totalNumNewBlocks = kk, !.minSamplingNodes = msn,
                      !.verbose = verbose, !.localN = localN,
                      !.status = [i \in Procs(p) |-> "start"],
                      !.minNodes = [i \in Procs(p) |-> 0],
                      !.samplingRounds = [i \in Procs(p) |-> 0],
                      !.samples = [i \in Procs(p) |-> <<>>],
                      !.boundsSize = [i \in Procs(p) |-> 0],
                      !.outOfRange = [i \in Procs(p) |-> FALSE]]

\* KMeans.cpp with up to SUMaxLocalN points per process; KMeans.h also with more
\* points than minNodes on a process
InitSU ==
    /\ PGIdle
    /\ rl = NoRL
    /\ kc = NoKC
    /\ ic = NoIC
    /\ asg = NoAB
    /\ cp = NoCP
    /\ bg = NoBG
    /\ km = NoKM
    /\ rb = NoRB
    /\ vl = NoVL
    /\ im = NoIM
    /\ pe = NoPE
    /\ \E p \in 1 .. SUMaxP :
          \/ \E localN \in [Procs(p) -> 1 .. SUMaxLocalN] :
             \E kk \in 1 .. SUMaxBlocks :
             \E msn \in {-1} \cup (1 .. SUMaxSamplingNodes) :
             \E verbose \in BOOLEAN :
                SUCall("KMeans.cpp", p, localN, kk, msn, verbose)
          \/ \E localN \in [Procs(p) -> (1 .. SUMaxLocalN)
                                         \cup {minNodesOfHeader + 1,
                                               2 * minNodesOfHeader + 1}] :
                SUCall("KMeans.h", p, localN, 1, 0, FALSE)

NextSU ==
    \/ SUEnter
    \/ SUAll
    \/ SUSampling
    \/ SUHeader
    \/ SUDone

SpecSU == InitSU /\ [][NextSU]_vars

\* ------------------------------------------------------------------ KMeans::assignBlocks, hierarchical
\* Number of local points, largest coordinate and largest number of passes of the
\* balance loop assignBlocks is run with.
ABPoints == 3
ABMaxCoord == 2
ABMaxPasses == 3

\* stands for std::numeric_limits<ValueType>::max()
ABValueMax == 1000000

RECURSIVE GCD(_, _)
GCD(a, b) == IF b = 0 THEN a ELSE GCD(b, a % b)

\* the fraction a in lowest terms
RatNorm(a) ==
    IF a[1] = 0 THEN <<0, 1>>
    ELSE <<a[1] \div GCD(a[1], a[2]), a[2] \div GCD(a[1], a[2])>>

RatMul(a, b) == RatNorm(<<a[1] * b[1], a[2] * b[2]>>)
RatDiv(a, b) == RatNorm(<<a[1] * b[2], a[2] * b[1]>>)

\* the whole range of centers, as with settings.repartition
ABWholeRange(blockSizesPrefixSum, fatherBlock) ==
    <<0, blockSizesPrefixSum[Len(blockSizesPrefixSum)]>>

\* rangeStart and rangeEnd of the centers that belong to fatherBlock
ABRange(blockSizesPrefixSum, fatherBlock) ==
    <<blockSizesPrefixSum[fatherBlock + 1], blockSizesPrefixSum[fatherBlock + 2]>>

\* squared distance of point v from center j
ABSqDist(v, j) ==
    <<(asg.centers[j] - asg.coordinates[v]) * (asg.centers[j] - asg.coordinates[v]), 1>>

\* boundingBox.distances(center).first: the distance of center j from the
\* bounding box of the local points
ABMinDistance(j) ==
    LET lo == Min({asg.coordinates[v] : v \in Vertices(asg.n)})
        hi == Max({asg.coordinates[v] : v \in Vertices(asg.n)})
    IN IF asg.centers[j] < lo THEN lo - asg.centers[j]
       ELSE IF asg.centers[j] > hi THEN asg.centers[j] - hi
       ELSE 0

\* effectMinDistAllBlocks before it is sorted: by block
ABEffectMinDist(influence) ==
    [j \in Blocks(asg.numNewBlocks) |->
        RatMul(<<ABMinDistance(j) * ABMinDistance(j), 1>>, influence[j])]

\* the block ids of every old block's range sorted by effective minimum distance
\* and id: clusterIndicesAllBlocks, by position
ABClusterIndices(eff) ==
    [c \in Blocks(asg.numNewBlocks) |->
        LET oldB == CHOOSE f \in 0 .. (Len(asg.blockSizesPrefixSum) - 2) :
                        /\ asg.blockSizesPrefixSum[f + 1] <= c
                        /\ c < asg.blockSizesPrefixSum[f + 2]
            ids == asg.blockSizesPrefixSum[oldB + 1] .. (asg.blockSizesPrefixSum[oldB + 2] - 1)
            before(a, b) == RatLess(eff[a], eff[b]) \/ (eff[a] = eff[b] /\ a < b)
        IN CHOOSE a \in ids :
              Cardinality({b \in ids : before(b, a)}) = c - asg.blockSizesPrefixSum[oldB + 1]]

RECURSIVE ABSearch(_, _, _, _, _, _)
\* the while loop over the centers c .. rangeEnd - 1 of the father block for
\* point v: best and second-best center
ABSearch(v, c, rangeEnd, influence, sorted, st) ==
    IF c < rangeEnd /\ RatLess(sorted.eff[c], st.secondBestValue)
    THEN LET j == sorted.indices[c]
             effectiveDistance == RatMul(ABSqDist(v, j), influence[j])
         IN ABSearch(v, c + 1, rangeEnd, influence, sorted,
                IF RatLess(effectiveDistance, st.bestValue)
                THEN [bestBlock |-> j, bestValue |-> effectiveDistance,
                      secondBest |-> st.bestBlock, secondBestValue |-> st.bestValue]
                ELSE IF RatLess(effectiveDistance, st.secondBestValue)
                THEN [st EXCEPT !.secondBest = j, !.secondBestValue = effectiveDistance]
                ELSE st)
    ELSE st

\* the body of the loop over the sampled range for point v: the new assignment,
\* the bounds, influenceEffectOfOwn, and whether an SCAI_ASSERT throws
ABAssignPoint(v) ==
    LET oldCluster == asg.assignment[v]
        own == asg.influence[oldCluster]
        kept(upper, skipped) ==
            [block |-> oldCluster, upper |-> upper, lower |-> asg.lowerBoundNextCenter[v],
             influenceEffectOfOwn |-> own, skipped |-> skipped, error |-> FALSE]
        newEffectiveDistance == RatMul(ABSqDist(v, oldCluster), own)
        range == ABRange(asg.blockSizesPrefixSum, asg.fatherBlock[v])
        sorted == [eff |-> [c \in Blocks(asg.numNewBlocks) |->
                               asg.effectMinDist[asg.clusterIndices[c]]],
                   indices |-> asg.clusterIndices]
        found == ABSearch(v, range[1], range[2], asg.influence, sorted,
                          [bestBlock |-> 0, bestValue |-> <<ABValueMax, 1>>,
                           secondBest |-> 0, secondBestValue |-> <<ABValueMax, 1>>])
    IN IF RatLess(asg.upperBoundOwnCenter[v], asg.lowerBoundNextCenter[v])
       THEN kept(asg.upperBoundOwnCenter[v], TRUE)
       ELSE IF RatLess(asg.upperBoundOwnCenter[v], newEffectiveDistance)
       THEN [kept(asg.upperBoundOwnCenter[v], FALSE) EXCEPT !.error = TRUE]
       ELSE IF RatLess(newEffectiveDistance, asg.lowerBoundNextCenter[v])
       THEN kept(newEffectiveDistance, TRUE)
       ELSE [block |-> found.bestBlock,
             upper |-> found.bestValue,
             lower |-> found.secondBestValue,
             influenceEffectOfOwn |-> asg.influence[found.bestBlock],
             skipped |-> FALSE,
             error |-> \/ (range[2] - range[1] > 1 /\ found.bestBlock = found.secondBest)
                       \/ (found.bestBlock # oldCluster
                           /\ RatLess(found.bestValue, asg.lowerBoundNextCenter[v]))]

\* the multiplier of the influence of a block of weight ratio 'ratio':
\* max(lower bound, min(ratio ^ influenceExponent, upper bound)), influenceExponent = 1
ABMultiplier(ratio) ==
    LET lo == <<asg.influenceChangeCap[2] - asg.influenceChangeCap[1], asg.influenceChangeCap[2]>>
        hi == <<asg.influenceChangeCap[2] + asg.influenceChangeCap[1], asg.influenceChangeCap[2]>>
    IN IF RatLess(ratio, lo) THEN RatNorm(lo)
       ELSE IF RatLess(hi, ratio) THEN RatNorm(hi)
       ELSE RatNorm(ratio)

\* entry: the checks of the arguments, the filter of the centers and their sort
ABStart ==
    /\ asg.pc = "abCall"
    /\ LET eff == ABEffectMinDist(asg.influence)
       IN IF asg.blockSizesPrefixSum[Len(asg.blockSizesPrefixSum)] # asg.numNewBlocks
          THEN asg' = [asg EXCEPT !.pc = "error"]
          ELSE asg' = [asg EXCEPT !.pc = "balanceLoop",
                                !.effectMinDist = eff,
                                !.clusterIndices = ABClusterIndices(eff),
                                !.iter = 0,
                                !.allWeightsBalanced = FALSE]
    /\ UNCHANGED <<pgVars, cp, bg, km, rb, vl, im, pe, su, ic, kc, rl>>

\* one pass of the balance loop: the assignment of the sampled points, the block
\* weights, the imbalance, the new influence, the new bounds and the new order of
\* the centers
ABPass ==
    /\ asg.pc = "balanceLoop"
    /\ \E r \in {[v \in asg.sampled |-> ABAssignPoint(v)]} :
       \E blockWeights \in {[j \in Blocks(asg.numNewBlocks) |->
                               Cardinality({v \in asg.sampled : r[v].block = j})]} :
       \E ratio \in {[j \in Blocks(asg.numNewBlocks) |->
                         <<blockWeights[j] * asg.numNewBlocks, Cardinality(asg.sampled)>>]} :
       \E multiplier \in {[j \in Blocks(asg.numNewBlocks) |-> ABMultiplier(ratio[j])]} :
       \E influence \in {[j \in Blocks(asg.numNewBlocks) |->
                             RatMul(asg.influence[j], multiplier[j])]} :
       \E minRatio \in {RatMinOf([j \in 1 .. asg.numNewBlocks |-> multiplier[j - 1]])} :
       \E eff \in {ABEffectMinDist(influence)} :
          IF \E v \in asg.sampled : r[v].error
          THEN asg' = [asg EXCEPT !.pc = "error"]
          ELSE asg' = [asg EXCEPT
                  !.pc = IF (\E j \in Blocks(asg.numNewBlocks) :
                                RatLess(<<asg.epsilon[2] + asg.epsilon[1], asg.epsilon[2]>>,
                                        ratio[j]))
                            /\ asg.iter + 1 < asg.balanceIterations
                         THEN "balanceLoop" ELSE "done",
                  !.allWeightsBalanced =
                         ~\E j \in Blocks(asg.numNewBlocks) :
                             RatLess(<<asg.epsilon[2] + asg.epsilon[1], asg.epsilon[2]>>,
                                     ratio[j]),
                  !.assignment = [v \in Vertices(asg.n) |->
                                     IF v \in asg.sampled THEN r[v].block ELSE @[v]],
                  !.upperBoundOwnCenter =
                         [v \in Vertices(asg.n) |->
                             IF v \in asg.sampled
                             THEN RatMul(r[v].upper,
                                         RatDiv(influence[r[v].block],
                                                r[v].influenceEffectOfOwn))
                             ELSE @[v]],
                  !.lowerBoundNextCenter =
                         [v \in Vertices(asg.n) |->
                             IF v \in asg.sampled THEN RatMul(r[v].lower, minRatio)
                             ELSE @[v]],
                  !.influence = influence,
                  !.effectMinDist = eff,
                  !.clusterIndices = ABClusterIndices(eff),
                  !.skipped = {v \in asg.sampled : r[v].skipped},
                  !.iter = asg.iter + 1]
    /\ UNCHANGED <<pgVars, cp, bg, km, rb, vl, im, pe, su, ic, kc, rl>>

\* the first call of a run of computePartition: result is 0 for every point, the
\* bounds are max and 0, every influence is 1; the first samples points are sampled
ABCall(coordinates, fatherBlock, blockSizesPrefixSum, centers, samples, epsilon) ==
    asg = [NoAB EXCEPT
            !.pc = "abCall", !.n = ABPoints,
            !.coordinates = coordinates, !.fatherBlock = fatherBlock,
            !.blockSizesPrefixSum = blockSizesPrefixSum,
            !.numNewBlocks = Cardinality(DOMAIN centers),
            !.centers = centers,
            !.sampled = 0 .. (samples - 1),
            !.epsilon = epsilon,
            !.influenceChangeCap = <<1, 2>>,
            !.balanceIterations = ABMaxPasses,
            !.influence = [j \in DOMAIN centers |-> <<1, 1>>],
            !.assignment = [v \in Vertices(ABPoints) |-> 0],
            !.upperBoundOwnCenter = [v \in Vertices(ABPoints) |-> <<ABValueMax, 1>>],
            !.lowerBoundNextCenter = [v \in Vertices(ABPoints) |-> <<0, 1>>]]

\* two old blocks with one or two new blocks each
ABPrefixSums == {<<0, 1, 3>>, <<0, 2, 3>>, <<0, 2, 4>>}

InitAB ==
    /\ PGIdle
    /\ rl = NoRL
    /\ kc = NoKC
    /\ ic = NoIC
    /\ cp = NoCP
    /\ bg = NoBG
    /\ km = NoKM
    /\ rb = NoRB
    /\ vl = NoVL
    /\ im = NoIM
    /\ pe = NoPE
    /\ su = NoSU
    /\ \E coordinates \in [Vertices(ABPoints) -> 0 .. ABMaxCoord] :
       \E fatherBlock \in [Vertices(ABPoints) -> 0 .. 1] :
       \E blockSizesPrefixSum \in ABPrefixSums :
       \E centers \in [Blocks(blockSizesPrefixSum[3]) -> 0 .. ABMaxCoord] :
       \E samples \in 2 .. ABPoints :
          /\ fatherBlock[0] = 0
          /\ ABCall(coordinates, fatherBlock, blockSizesPrefixSum, centers, samples,
                    <<0, 1>>)

NextAB ==
    \/ ABStart
    \/ ABPass

SpecAB == InitAB /\ [][NextAB]_vars

\* ------------------------------------------------------------------ findInitialCentersSFC
ICMaxP == 2
ICMaxLocalN == 2
ICMaxBlocks == 2
ICMaxNewBlocks == 2

ICProcs(p) == 0 .. (p - 1)

\* the local points of a process are named by their position in sortedLocalIndices;
\* convertedCoords gives every point of every process another power of two, so
\* that a sum of coordinates tells which points were added up
ICCoord(p, i) == 2 ^ (p * ICMaxLocalN + i - 1)

\* src/src/KMeans.cpp 105-109: oldBlockSizes of one process
ICOldBlockSize(localPart, p, b) ==
    Cardinality({i \in 1 .. Len(localPart[p]) : localPart[p][i] = b})

RECURSIVE ICPrefixSum(_, _, _)
\* src/src/KMeans.cpp 126-131: the prefix sum of one old block over the processes
\* 0 .. pe-1, the entry b*(numPEs+1)+pe of concatPrefixSumArray
ICPrefixSum(localPart, b, upto) ==
    IF upto = 0 THEN 0
    ELSE ICPrefixSum(localPart, b, upto - 1) + ICOldBlockSize(localPart, upto - 1, b)

\* src/src/KMeans.cpp 169 and src/KMeans.cpp 67: the wanted index of centre i
ICCenterInd(size, k_b, i) == i * (size \div k_b) + (size \div k_b) \div 2

\* src/src/KMeans.cpp 208: the test whether a centre index is owned by this process
ICOwns(centerInd, rangeStart, rangeEnd) == centerInd >= rangeStart /\ centerInd <= rangeEnd

\* src/src/KMeans.cpp 213-233: the scan over the local points in SFC order; the
\* position of the point whose within-block index is centerInd, 0 when the scan
\* ends without finding one
ICScanFind(points, b, centerInd, rangeStart) ==
    LET inBlock == SelectSeq([i \in 1 .. Len(points) |-> i], LAMBDA i : points[i] = b)
        off     == centerInd - rangeStart
    IN IF off < Len(inBlock) THEN inBlock[off + 1] ELSE 0

\* the value of counter after the scan
ICScanCounter(points, b, centerInd, rangeStart) ==
    IF ICScanFind(points, b, centerInd, rangeStart) # 0 THEN centerInd
    ELSE rangeStart + Cardinality({i \in 1 .. Len(points) : points[i] = b})

\* src/src/KMeans.cpp 112-141: the gather of the block sizes on the root, the prefix
\* sums and their broadcast; src/KMeans.cpp 71-72: the block distribution
ICGather ==
    /\ ic.pc = "gather"
    /\ ic' = [ic EXCEPT
                !.pc = "scan",
                !.concatPrefixSumArray =
                    [b \in Blocks(ic.numOldBlocks) |->
                        [q \in 0 .. ic.numPEs |-> ICPrefixSum(ic.localPart, b, q)]]]
    /\ UNCHANGED <<pgVars, cp, bg, km, rb, vl, im, pe, su, asg, kc, rl>>

\* src/src/KMeans.cpp 163-171, 185-237: one process looks for the centres it owns
ICScanHier(p) ==
    /\ ic.pc = "scan" /\ ic.version = "hier" /\ p \notin ic.scanned
    /\ LET found == [b \in Blocks(ic.numOldBlocks) |->
                      [j \in Blocks(ic.numNewBlocksPerOldBlock[b]) |->
                        LET rangeStart == ic.concatPrefixSumArray[b][p]
                            rangeEnd   == ic.concatPrefixSumArray[b][p + 1]
                            centerInd  == ICCenterInd(ic.concatPrefixSumArray[b][ic.numPEs],
                                                      ic.numNewBlocksPerOldBlock[b], j)
                        IN IF ICOwns(centerInd, rangeStart, rangeEnd)
                           THEN [pos |-> ICScanFind(ic.localPart[p], b, centerInd, rangeStart),
                                 inBounds |-> ICScanCounter(ic.localPart[p], b, centerInd,
                                                            rangeStart) <= rangeEnd]
                           ELSE [pos |-> 0, inBounds |-> TRUE]]]
       IN IF \E b \in Blocks(ic.numOldBlocks) :
                \E j \in Blocks(ic.numNewBlocksPerOldBlock[b]) : ~found[b][j].inBounds
          THEN ic' = [ic EXCEPT !.pc = "error"]
          ELSE ic' = [ic EXCEPT
                        !.scanned = @ \cup {p},
                        !.owned[p] = [b \in Blocks(ic.numOldBlocks) |->
                                        [j \in Blocks(ic.numNewBlocksPerOldBlock[b]) |->
                                            found[b][j].pos]]]
    /\ UNCHANGED <<pgVars, cp, bg, km, rb, vl, im, pe, su, asg, kc, rl>>

\* src/KMeans.cpp 64-88: one process looks up the wanted indices in the block
\* distribution
ICScanFlat(p) ==
    /\ ic.pc = "scan" /\ ic.version = "flat" /\ p \notin ic.scanned
    /\ LET globalN == ic.concatPrefixSumArray[0][ic.numPEs]
           numC    == ic.numNewBlocksPerOldBlock[0]
           first   == ic.concatPrefixSumArray[0][p]
           localN  == Len(ic.localPart[p])
       IN ic' = [ic EXCEPT
                    !.scanned = @ \cup {p},
                    !.owned[p] = [b \in {0} |-> [j \in Blocks(numC) |->
                        LET wanted == ICCenterInd(globalN, numC, j)
                        IN IF first <= wanted /\ wanted < first + localN
                           THEN wanted - first + 1 ELSE 0]]]
    /\ UNCHANGED <<pgVars, cp, bg, km, rb, vl, im, pe, su, asg, kc, rl>>

\* the processes that stored coordinates for centre j of old block b
ICEmitters(b, j) == {p \in ICProcs(ic.numPEs) : ic.owned[p][b][j] # 0}

\* src/src/KMeans.cpp 241-275 and src/KMeans.cpp 90-94: the check of debug mode that
\* all centres were found, and the global sum of the stored coordinates
ICSum ==
    /\ ic.pc = "scan" /\ ic.scanned = ICProcs(ic.numPEs)
    /\ LET numOwnedCenters == Cardinality({x \in ICProcs(ic.numPEs) \X Blocks(ic.numOldBlocks)
                                                \X Blocks(ICMaxNewBlocks) :
                                  /\ x[3] < ic.numNewBlocksPerOldBlock[x[2]]
                                  /\ ic.owned[x[1]][x[2]][x[3]] # 0})
           numNewTotalBlocks == SumOver(ic.numNewBlocksPerOldBlock,
                                        Blocks(ic.numOldBlocks))
       IN IF ic.version = "hier" /\ ic.debugMode /\ numOwnedCenters # numNewTotalBlocks
          THEN ic' = [ic EXCEPT !.pc = "error"]
          ELSE ic' = [ic EXCEPT
                        !.pc = "done",
                        !.centersPerNewBlock =
                            [b \in Blocks(ic.numOldBlocks) |->
                                [j \in Blocks(ic.numNewBlocksPerOldBlock[b]) |->
                                    SumOver([p \in ICProcs(ic.numPEs) |->
                                        IF ic.owned[p][b][j] = 0 THEN 0
                                        ELSE ICCoord(p, ic.owned[p][b][j])],
                                        ICProcs(ic.numPEs))]]]
    /\ UNCHANGED <<pgVars, cp, bg, km, rb, vl, im, pe, su, asg, kc, rl>>

\* src/src/KMeans.cpp 33-52 and src/KMeans.cpp 25-36: the call
ICCall(version, commSize, localPart, numNewBlocksPerOldBlock, debugMode) ==
    ic = [NoIC EXCEPT
            !.pc = "gather", !.version = version, !.numPEs = commSize,
            !.numOldBlocks = Cardinality(DOMAIN numNewBlocksPerOldBlock),
            !.localPart = localPart,
            !.numNewBlocksPerOldBlock = numNewBlocksPerOldBlock,
            !.debugMode = debugMode,
            !.owned = [p \in ICProcs(commSize) |-> <<>>]]

InitIC ==
    /\ PGIdle
    /\ rl = NoRL
    /\ kc = NoKC
    /\ cp = NoCP
    /\ bg = NoBG
    /\ km = NoKM
    /\ rb = NoRB
    /\ vl = NoVL
    /\ im = NoIM
    /\ pe = NoPE
    /\ su = NoSU
    /\ asg = NoAB
    /\ \E version \in {"hier", "flat"} :
       \E commSize \in 1 .. ICMaxP :
       \E numOldBlocks \in 1 .. ICMaxBlocks :
       \E localPart \in [ICProcs(commSize) ->
                            UNION {[1 .. len -> Blocks(numOldBlocks)] : len \in 0 .. ICMaxLocalN}] :
       \E numNewBlocksPerOldBlock \in [Blocks(numOldBlocks) -> 1 .. ICMaxNewBlocks] :
       \E debugMode \in BOOLEAN :
          /\ version = "flat" => (numOldBlocks = 1 /\ ~debugMode)
          /\ \E p \in ICProcs(commSize) : Len(localPart[p]) > 0
          /\ ICCall(version, commSize, localPart, numNewBlocksPerOldBlock, debugMode)

NextIC ==
    \/ ICGather
    \/ \E p \in ICProcs(ICMaxP) : p \in ICProcs(ic.numPEs) /\ ICScanHier(p)
    \/ \E p \in ICProcs(ICMaxP) : p \in ICProcs(ic.numPEs) /\ ICScanFlat(p)
    \/ ICSum

SpecIC == InitIC /\ [][NextIC]_vars

\* ------------------------------------------------------------------ k-means iterations
KCMaxP == 2
KCMaxLocalN == 3
KCMaxIter == 2
KCMaxPasses == 2

RECURSIVE Repeat(_, _)
\* a sequence written count times
Repeat(seq, count) == IF count <= 0 THEN <<>> ELSE seq \o Repeat(seq, count - 1)

\* src/src/KMeans.cpp 1344-1345, 1366-1376: the number of points between firstIndex
\* and lastIndex in an iteration of a process
KCCurrentLocalN(samples, localN, iteration) ==
    IF iteration <= Len(samples) THEN samples[iteration] ELSE localN

\* src/src/KMeans.cpp 1366-1395: the head of an iteration, comm->sum(samples[iter])
\* in a sampling round and comm->sum(localSampleWeightSum) for every node weight
KCHeadCollectives(sampling, numNodeWeights) ==
    (IF sampling THEN <<"sum(samples)">> ELSE <<>>)
        \o Repeat(<<"sum(localSampleWeightSum)">>, numNodeWeights)

\* src/src/KMeans.cpp 555-564, 577-580, 659-808, 985-994: assignBlocks returns at
\* once when the sampled range is empty; otherwise it goes through oldBlock.max() in
\* debug mode, a synchronize and a sum of the block weights per node weight in
\* every pass of the balance loop, and three reductions in verbose mode
KCAssignBlocksCollectives(currentLocalN, numNodeWeights, passes, debugMode, verbose) ==
    IF currentLocalN = 0 THEN <<>>
    ELSE (IF debugMode THEN <<"oldBlock.max">> ELSE <<>>)
            \o Repeat(<<"synchronize">> \o Repeat(<<"sumImpl(blockWeights)">>, numNodeWeights),
                      passes)
            \o (IF verbose THEN <<"max(percentageSkipped)", "min(percentageSkipped)",
                                  "sum(percentageSkipped)">> ELSE <<>>)

\* src/src/KMeans.cpp 1409-1410: the sum of the times after assignBlocks
KCTimeCollectives(debugMode, verbose) ==
    IF verbose /\ debugMode THEN <<"sumImpl(timePerPE)">> ELSE <<>>

\* src/src/KMeans.cpp 464-485: findCenters sums the weights and, for every
\* dimension, the centers, for every node weight
KCFindCentersCollectives(numNodeWeights, dim) ==
    Repeat(<<"sumImpl(weightSum)">> \o Repeat(<<"sumImpl(result)">>, dim), numNodeWeights)

\* src/src/KMeans.cpp 1548-1568: the sum of the current block weights and the
\* maximal time at the end of an iteration
KCTailCollectives(numNodeWeights, verbose) ==
    Repeat(<<"sumImpl(currentBlockWeights)">>, numNodeWeights)
        \o (IF verbose THEN <<"max(balanceTime)">> ELSE <<>>)

\* src/src/KMeans.cpp 1365-1395: a process starts its next iteration
KCHead(p) ==
    /\ kc.pc = "run" /\ kc.step[p] = "loop"
    /\ kc' = [kc EXCEPT
                !.step[p] = "assign",
                !.ops[p] = @ \o KCHeadCollectives(kc.iter[p] < Len(kc.samples[p]),
                                                  kc.numNodeWeights)]
    /\ UNCHANGED <<pgVars, cp, bg, km, rb, vl, im, pe, su, asg, ic, rl>>

\* src/src/KMeans.cpp 1406-1410: the call of assignBlocks
KCAssignBlocks(p) ==
    /\ kc.pc = "run" /\ kc.step[p] = "assign"
    /\ kc' = [kc EXCEPT
                !.step[p] = "centers",
                !.ops[p] = @ \o KCAssignBlocksCollectives(
                                    KCCurrentLocalN(kc.samples[p], kc.localN[p],
                                                    kc.iter[p] + 1),
                                    kc.numNodeWeights, kc.passes[kc.iter[p] + 1],
                                    kc.debugMode, kc.verbose)
                             \o KCTimeCollectives(kc.debugMode, kc.verbose)]
    /\ UNCHANGED <<pgVars, cp, bg, km, rb, vl, im, pe, su, asg, ic, rl>>

\* src/src/KMeans.cpp 1426: the call of findCenters
KCFindCenters(p) ==
    /\ kc.pc = "run" /\ kc.step[p] = "centers"
    /\ kc' = [kc EXCEPT
                !.step[p] = "tail",
                !.ops[p] = @ \o KCFindCentersCollectives(kc.numNodeWeights, kc.dim)]
    /\ UNCHANGED <<pgVars, cp, bg, km, rb, vl, im, pe, su, asg, ic, rl>>

\* src/src/KMeans.cpp 1438-1640: the rest of the iteration
KCTail(p) ==
    /\ kc.pc = "run" /\ kc.step[p] = "tail"
    /\ kc' = [kc EXCEPT
                !.step[p] = IF kc.iter[p] + 1 = Len(kc.passes) THEN "done" ELSE "loop",
                !.iter[p] = @ + 1,
                !.ops[p] = @ \o KCTailCollectives(kc.numNodeWeights, kc.verbose)]
    /\ UNCHANGED <<pgVars, cp, bg, km, rb, vl, im, pe, su, asg, ic, rl>>

\* src/src/KMeans.cpp 1293-1336: minNodes for one new block per process and
\* minSamplingNodes = 1, randomInitialization, samplingRounds and samples
KCSamples(commSize, localN, q) ==
    LET minNodes == 1
        globalN  == SumOver(localN, ICProcs(commSize))
        randomInitialization == \A r \in ICProcs(commSize) : localN[r] > minNodes
        samplingRounds == CeilLog2Ratio(globalN, commSize) + 1
    IN IF ~randomInitialization THEN <<>>
       ELSE [i \in 1 .. samplingRounds |->
                IF i = samplingRounds THEN localN[q]
                ELSE KMSamples(i, minNodes, localN[q])[i]]

InitKC ==
    /\ PGIdle
    /\ rl = NoRL
    /\ cp = NoCP
    /\ bg = NoBG
    /\ km = NoKM
    /\ rb = NoRB
    /\ vl = NoVL
    /\ im = NoIM
    /\ pe = NoPE
    /\ su = NoSU
    /\ asg = NoAB
    /\ ic = NoIC
    /\ \E commSize \in 1 .. KCMaxP :
       \E localN \in [ICProcs(commSize) -> 0 .. KCMaxLocalN] :
       \E numNodeWeights \in 1 .. 2 :
       \E debugMode \in BOOLEAN :
       \E verbose \in BOOLEAN :
       \E iterations \in 1 .. KCMaxIter :
       \E passes \in [1 .. iterations -> 1 .. KCMaxPasses] :
          /\ \E q \in ICProcs(commSize) : localN[q] > 0
          /\ kc = [NoKC EXCEPT
                     !.pc = "run", !.numPEs = commSize, !.localN = localN,
                     !.numNodeWeights = numNodeWeights, !.dim = 2,
                     !.debugMode = debugMode, !.verbose = verbose,
                     !.samples = [q \in ICProcs(commSize) |-> KCSamples(commSize, localN, q)],
                     !.passes = passes,
                     !.iter = [q \in ICProcs(commSize) |-> 0],
                     !.step = [q \in ICProcs(commSize) |-> "loop"],
                     !.ops = [q \in ICProcs(commSize) |-> <<>>]]

NextKC ==
    \/ \E p \in ICProcs(KCMaxP) : p \in ICProcs(kc.numPEs) /\ KCHead(p)
    \/ \E p \in ICProcs(KCMaxP) : p \in ICProcs(kc.numPEs) /\ KCAssignBlocks(p)
    \/ \E p \in ICProcs(KCMaxP) : p \in ICProcs(kc.numPEs) /\ KCFindCenters(p)
    \/ \E p \in ICProcs(KCMaxP) : p \in ICProcs(kc.numPEs) /\ KCTail(p)

SpecKC == InitKC /\ [][NextKC]_vars

\* ------------------------------------------------------------------ rebalance, main loop
RLMaxP == 2
RLMaxLocalN == 3

\* the batch size of a process that does not ask the other processes
RLMyBatchSize(localN, batchPercent, q) ==
    (localN[q] * batchPercent[1]) \div batchPercent[2] + 1

\* src/src/KMeans.cpp 2399-2401: myBatchSize = localN*settings.batchPercent + 1 and
\* batchSize = comm->min(myBatchSize)
RLBatchSize(localN, batchPercent, q) ==
    Min({(localN[r] * batchPercent[1]) \div batchPercent[2] + 1 : r \in DOMAIN localN})

\* src/src/KMeans.cpp 2394: numPointsToCheck = comm->min(localN)*pointPerCent
RLNumPointsToCheck(localN, pointPerCent) ==
    (Min({localN[r] : r \in DOMAIN localN}) * pointPerCent[1]) \div pointPerCent[2]

\* src/src/KMeans.cpp 2589-2594: the exit condition, applied to the state of the
\* processes in todo
RLExit(r, todo) ==
    [r EXCEPT
        !.localI = [q \in DOMAIN r.localI |->
                      IF q \in todo /\ r.localI[q] < r.numPointsToCheck - 1
                      THEN r.localI[q] + 1 ELSE r.localI[q]],
        !.meDone = [q \in DOMAIN r.meDone |->
                      IF q \in todo /\ ~(r.localI[q] < r.numPointsToCheck - 1)
                      THEN TRUE ELSE r.meDone[q]],
        !.at = [q \in DOMAIN r.at |-> IF q \in todo THEN "all" ELSE r.at[q]],
        !.ops = [q \in DOMAIN r.ops |->
                    IF q \in todo THEN Append(r.ops[q], "all(meDone)") ELSE r.ops[q]]]

\* src/src/KMeans.cpp 2404-2549, 2551, 2589-2596: a process runs from the head of the
\* loop, with or without moving its point, to the first collective operation of
\* the iteration
RLTop(p) ==
    /\ rl.pc = "run" /\ rl.at[p] = "none"
    /\ \E moved \in (IF rl.numMoves[p] < rl.localN[p] THEN BOOLEAN ELSE {FALSE}) :
       LET r1 == [rl EXCEPT !.numMoves[p] = @ + (IF moved THEN 1 ELSE 0)]
       IN IF (rl.localI[p] + 1) % rl.batchSize[p] = 0 \/ rl.meDone[p]
          THEN rl' = [r1 EXCEPT
                        !.at[p] = "sums",
                        !.ops[p] = @ \o Repeat(<<"sumImpl(blockWeightDifference)">>,
                                               rl.numWeights)]
          ELSE rl' = RLExit(r1, {p})
    /\ UNCHANGED <<pgVars, cp, bg, km, rb, vl, im, pe, su, asg, ic, kc>>

\* all processes wait in a collective operation
RLAllWaiting == \A q \in ICProcs(rl.numPEs) : rl.at[q] # "none"

\* src/src/KMeans.cpp 2555-2586: the sums of the block weight differences are
\* done, unless a process waits in another collective operation, in which case
\* none of them completes; with restarts left every process sorts and restarts and goes to the exit
\* condition, otherwise it enters comm->min(batchSize)
RLSumsDone ==
    /\ rl.pc = "run" /\ RLAllWaiting
    /\ \E q \in ICProcs(rl.numPEs) : rl.at[q] = "sums"
    /\ LET restarting == {q \in ICProcs(rl.numPEs) : RBMayRestart(rl.thisRun[q])}
           r1 == [rl EXCEPT
                    !.localI = [q \in ICProcs(rl.numPEs) |->
                                  IF q \in restarting THEN -1 ELSE rl.localI[q]],
                    !.thisRun = [q \in ICProcs(rl.numPEs) |->
                                   IF q \in restarting THEN rl.thisRun[q] + 1
                                   ELSE rl.thisRun[q]],
                    !.batchSize = [q \in ICProcs(rl.numPEs) |->
                                     IF q \in restarting THEN rl.batchSize[q]
                                     ELSE Min({(rl.batchSize[q] * 105) \div 100,
                                               Max({rl.localN[q] \div 1000 + 1, 1000})})],
                    !.at = [q \in ICProcs(rl.numPEs) |->
                              IF q \in restarting THEN rl.at[q] ELSE "min"],
                    !.ops = [q \in ICProcs(rl.numPEs) |->
                               IF q \in restarting THEN rl.ops[q]
                               ELSE Append(rl.ops[q], "min(batchSize)")]]
       IN IF \A q \in ICProcs(rl.numPEs) : rl.at[q] = "sums"
          THEN rl' = RLExit(r1, restarting)
          ELSE rl' = [rl EXCEPT !.pc = "crossed"]
    /\ UNCHANGED <<pgVars, cp, bg, km, rb, vl, im, pe, su, asg, ic, kc>>

\* src/src/KMeans.cpp 2584: comm->min(batchSize) is done
RLMinDone ==
    /\ rl.pc = "run" /\ RLAllWaiting
    /\ \E q \in ICProcs(rl.numPEs) : rl.at[q] = "min"
    /\ IF \A q \in ICProcs(rl.numPEs) : rl.at[q] = "min"
       THEN rl' = RLExit([rl EXCEPT
                            !.batchSize = [q \in ICProcs(rl.numPEs) |->
                                             Min({rl.batchSize[r] :
                                                     r \in ICProcs(rl.numPEs)})]],
                         ICProcs(rl.numPEs))
       ELSE rl' = [rl EXCEPT !.pc = "crossed"]
    /\ UNCHANGED <<pgVars, cp, bg, km, rb, vl, im, pe, su, asg, ic, kc>>

\* src/src/KMeans.cpp 2596-2604: comm->all(meDone) is done; the loop ends on every
\* process or goes on on every process
RLAllDone ==
    /\ rl.pc = "run" /\ RLAllWaiting
    /\ \E q \in ICProcs(rl.numPEs) : rl.at[q] = "all"
    /\ LET allDone == \A q \in ICProcs(rl.numPEs) : rl.meDone[q]
       IN IF \A q \in ICProcs(rl.numPEs) : rl.at[q] = "all"
          THEN rl' = [rl EXCEPT
                        !.pc = IF allDone THEN "done" ELSE "run",
                        !.iters = [q \in ICProcs(rl.numPEs) |-> rl.iters[q] + 1],
                        !.at = [q \in ICProcs(rl.numPEs) |->
                                  IF allDone THEN "end" ELSE "none"]]
          ELSE rl' = [rl EXCEPT !.pc = "crossed"]
    /\ UNCHANGED <<pgVars, cp, bg, km, rb, vl, im, pe, su, asg, ic, kc>>

\* src/src/KMeans.cpp 2262-2409: the call of rebalance and the set-up of the loop
RLCall(commSize, localN, numWeights, batchPercent, pointPerCent) ==
    rl = [NoRL EXCEPT
            !.pc = "run", !.numPEs = commSize, !.localN = localN,
            !.numWeights = numWeights,
            !.batchPercent = batchPercent, !.pointPerCent = pointPerCent,
            !.numPointsToCheck = RLNumPointsToCheck(localN, pointPerCent),
            !.localI = [q \in ICProcs(commSize) |-> 0],
            !.thisRun = [q \in ICProcs(commSize) |-> 0],
            !.batchSize = [q \in ICProcs(commSize) |->
                              RLBatchSize(localN, batchPercent, q)],
            !.meDone = [q \in ICProcs(commSize) |-> FALSE],
            !.numMoves = [q \in ICProcs(commSize) |-> 0],
            !.iters = [q \in ICProcs(commSize) |-> 0],
            !.at = [q \in ICProcs(commSize) |-> "none"],
            !.ops = [q \in ICProcs(commSize) |-> <<>>]]

InitRL ==
    /\ PGIdle
    /\ cp = NoCP
    /\ bg = NoBG
    /\ km = NoKM
    /\ rb = NoRB
    /\ vl = NoVL
    /\ im = NoIM
    /\ pe = NoPE
    /\ su = NoSU
    /\ asg = NoAB
    /\ ic = NoIC
    /\ kc = NoKC
    /\ \E commSize \in 1 .. RLMaxP :
       \E localN \in [ICProcs(commSize) -> 1 .. RLMaxLocalN] :
       \E numWeights \in 1 .. 2 :
       \E batchPercent \in {<<0, 1>>, <<1, 2>>, <<1, 1>>} :
       \E pointPerCent \in {<<1, 2>>, <<1, 1>>} :
          RLCall(commSize, localN, numWeights, batchPercent, pointPerCent)

NextRL ==
    \/ \E p \in ICProcs(RLMaxP) : p \in ICProcs(rl.numPEs) /\ RLTop(p)
    \/ RLSumsDone
    \/ RLMinDone
    \/ RLAllDone

SpecRL == InitRL /\ [][NextRL]_vars

\* ------------------------------------------------------------------ properties
\* the partition p keeps every block within (1 + epsilon) * ceil(n / k)
Balanced(p) ==
    /\ ImbalanceLE(MaxBlockSize(p, n, k), CeilDiv(n, k), eps)
    /\ \A b \in Blocks(k) : BlockSize(p, n, b) * eps[2] <= (eps[2] + eps[1]) * CeilDiv(n, k)

\* the partition a running or finished replicatedMultiWayFM call was started with
FMStartPartition == RolledBack(part, fm.transferedVertices, fm.transfers, 0)

\* C1: when replicatedMultiWayFM has returned, the cut of the partition equals the
\* cut before the call minus the gain the call returned.
C1_ReplicatedCutMinusGain ==
    (pc = "pgCheck" /\ mode = "replicated") => ComputeCut(adj, part, n) = cut - gain

\* a call returned a positive gain after rolling back some of its moves
C1_Witness ==
    /\ pc = "pgCheck" /\ mode = "replicated"
    /\ fm.active /\ gain > 0
    /\ fm.gainsum # gain
    /\ ComputeCut(adj, part, n) = cut - gain

\* C2: when distributedFMStep has returned, the global cut equals the global cut
\* before the call minus the value the call returned.
C2_DistributedCutMinusGain ==
    (pc = "pgCheck" /\ mode = "distributed") => ComputeCut(adj, part, n) = cut - gain

\* C3: the partition partitionGraph returns has imbalance at most epsilon, every
\* block holding at most (1 + epsilon) * ceil(n / k) vertices; and an FM round started
\* from a partition with imbalance at most epsilon ends with such a partition.
C3_BalancePreserved ==
    /\ (pc \in {"pgCheck", "done"} /\ entry = "partitionGraph") => Balanced(part)
    /\ (pc = "pgCheck" /\ fm.active /\ Balanced(FMStartPartition)) => Balanced(part)

\* an FM round of partitionGraph returned a gain and filled a block up to the
\* bound, above the optimal size
C3_Witness ==
    /\ pc = "pgCheck" /\ entry = "partitionGraph"
    /\ gain > 0
    /\ MaxBlockSize(part, n, k) > CeilDiv(n, k)
    /\ MaxBlockSize(part, n, k) = MaxAllowable(CeilDiv(n, k), eps)

\* C4: the partition partitionGraph returns has n entries, all block ids in
\* [0, k), minimum block id 0 and maximum block id k - 1.
C4_AllBlocksUsed ==
    (pc = "done" /\ entry = "partitionGraph") =>
        /\ DOMAIN part = Vertices(n)
        /\ \A v \in Vertices(n) : part[v] \in Blocks(k)
        /\ Min({part[v] : v \in Vertices(n)}) = 0
        /\ Max({part[v] : v \in Vertices(n)}) = k - 1

\* C5: in one call of replicatedMultiWayFM or twoWayLocalFM no vertex is moved
\* twice, and a vertex that has been moved is in no priority queue.
C5_MovedAtMostOnce ==
    /\ fm.active =>
         /\ \A i, j \in 1 .. Len(fm.transferedVertices) :
                i # j => fm.transferedVertices[i] # fm.transferedVertices[j]
         /\ \A b \in Blocks(k) : \A e \in fm.queues[b] : ~fm.moved[e[2]]
         /\ \A v \in Vertices(n) :
                fm.moved[v] <=> \E i \in 1 .. Len(fm.transferedVertices) :
                                   fm.transferedVertices[i] = v
    /\ tw.active =>
         /\ \A i, j \in 1 .. Len(tw.transfers) :
                i # j => tw.transfers[i][2] # tw.transfers[j][2]
         /\ \A e \in tw.firstQueue \cup tw.secondQueue : e[2] \notin tw.moved
         /\ tw.moved = {tw.transfers[i][2] : i \in 1 .. Len(tw.transfers)}

\* a vertex was moved whose neighbour had been moved before it in the same call
C5_Witness ==
    \/ /\ tw.active
       /\ \E i, j \in 1 .. Len(tw.transfers) :
             i < j /\ tw.transfers[i][2] \in adj[tw.transfers[j][2]]
    \/ /\ fm.active
       /\ \E i, j \in 1 .. Len(fm.transferedVertices) :
             i < j /\ fm.transferedVertices[i] \in adj[fm.transferedVertices[j]]

\* C6: when twoWayLocalFM returns, the size of each of the two blocks is at most
\* the capacity passed for that block; the sizes are the ones the call keeps in
\* blockSizes, and they are the sizes the blocks have with the returned regions.
C6_SizesWithinCapacities ==
    (tw.active /\ tw.returned) =>
        LET first == BlockSize(part, n, df.proc)
                     - Cardinality(tw.firstRegionCopy) + Cardinality(tw.firstregion)
            second == BlockSize(part, n, df.proc) + BlockSize(part, n, Partner) - first
        IN /\ tw.blockSizes = <<first, second>>
           /\ first <= tw.blockCapacities[1]
           /\ second <= tw.blockCapacities[2]

\* a call returned a gain after undoing some of its moves, with a block filled
\* up to its capacity
C6_Witness ==
    /\ pc = "twReturn" /\ tw.active /\ tw.returned
    /\ tw.result > 0
    /\ tw.gainSum # tw.result
    /\ \/ tw.blockSizes[1] = tw.blockCapacities[1]
       \/ tw.blockSizes[2] = tw.blockCapacities[2]

\* C7: in every round of the schedule computeCommunicationPairings builds and
\* returns, every entry partner[i] lies in [0, p) and partner[partner[i]] = i, so
\* each round is a matching whose unmatched processes are mapped to themselves.
C7_RoundsAreMatchings ==
    \A r \in 1 .. Len(cp.result) :
        /\ DOMAIN cp.result[r] = 0 .. (cp.p - 1)
        /\ \A i \in 0 .. (cp.p - 1) :
               /\ cp.result[r][i] \in 0 .. (cp.p - 1)
               /\ cp.result[r][cp.result[r][i]] = i

\* a returned schedule with a round that matches some processes and leaves another alone
C7_Witness ==
    /\ cp.pc = "done"
    /\ \E r \in 1 .. Len(cp.result) :
           /\ \E i \in 0 .. (cp.p - 1) : cp.result[r][i] = i
           /\ \E i \in 0 .. (cp.p - 1) : cp.result[r][i] # i

\* the rounds of the returned schedule in which i and j are partners
RoundsMatching(i, j) ==
    {r \in 1 .. Len(cp.result) : cp.result[r][i] = j /\ cp.result[r][j] = i}

\* C8: over all rounds of the schedule computeCommunicationPairings returns, every
\* pair of distinct processes i, j < p is matched in exactly one round, for every
\* p >= 2, powers of two or not.
C8_EveryPairExactlyOnce ==
    (cp.pc = "done" /\ cp.p >= 2) =>
        \A i \in 0 .. (cp.p - 1) : \A j \in (i + 1) .. (cp.p - 1) :
            Cardinality(RoundsMatching(i, j)) = 1

\* a schedule returned for a p that is not a power of two: more than p - 1 rounds
C8_Witness ==
    /\ cp.pc = "done"
    /\ cp.p >= 3
    /\ Len(cp.result) > cp.p - 1
    /\ Cardinality(RoundsMatching(0, cp.p - 1)) = 1

\* the block pairs (a, b), a # b, joined by an edge of the whole graph
CrossingBlocks ==
    {ab \in Blocks(bg.k) \X Blocks(bg.k) :
        /\ ab[1] # ab[2]
        /\ \E i \in Vertices(bg.n) : \E j \in bg.adj[i] :
               bg.part[i] = ab[1] /\ bg.part[j] = ab[2]}

\* C9: when getBlockGraph has completed its ring-shift rounds on p processes, every
\* process holds the same k x k matrix B with B[a][b] = 1 iff a # b and some edge
\* (i, j) of the whole distributed graph has i in block a and j in block b; the
\* diagonal is zero.
C9_BlockGraphOnEveryProcess ==
    bg.pc = "done" =>
        \A r \in 0 .. (bg.p - 1) :
            /\ DOMAIN bg.matrix[r] = Blocks(bg.k)
            /\ \A a \in Blocks(bg.k) : \A b \in Blocks(bg.k) :
                   (b \in bg.matrix[r][a]) <=> (<<a, b>> \in CrossingBlocks)

\* completed on three processes, one of which found no block edge in its own rows
\* and holds a matrix with entries, while two others found different edges
C9_Witness ==
    /\ bg.pc = "done"
    /\ bg.p >= 3
    /\ \E r \in 0 .. (bg.p - 1) :
           /\ bg.blockEdges[r] = <<>>
           /\ \E a \in Blocks(bg.k) : bg.matrix[r][a] # {}
    /\ \E r1 \in 0 .. (bg.p - 1) : \E r2 \in 0 .. (bg.p - 1) :
           /\ Range(bg.blockEdges[r1]) \ Range(bg.blockEdges[r2]) # {}
           /\ Range(bg.blockEdges[r2]) \ Range(bg.blockEdges[r1]) # {}

\* the maximum imbalance over all weights of a complete assignment
KMMaxImbalance(assignment) ==
    RatMaxOf([i \in 1 .. km.numNodeWeights |->
                 KMImbalance(i, assignment, Vertices(km.n), km.numBlocks)])

\* C10: with keepMostBalanced set, computePartition returns an assignment produced
\* in a main-loop iteration whose maximum imbalance over all weights is the
\* smallest among the assignments of all points produced in the main-loop
\* iterations, for one weight and for several weights.
C10_MostBalancedReturned ==
    (km.pc = "done" /\ km.keepMostBalanced) =>
        /\ km.returned \in km.produced
        /\ \A assignment \in km.produced :
               ~RatLess(KMMaxImbalance(assignment), KMMaxImbalance(km.returned))

\* C11 as stated: the main loop of computePartition executes at most
\* maxKMeansIterations iterations, whatever the number of sampling rounds.
C11_AtMostMaxIterations ==
    km.pc \in {"kmLoop", "kmReturn", "done"} => km.iter <= km.maxIterations

\* C11, amended: the main loop of computePartition executes at most
\* max(1, samplingRounds, maxKMeansIterations) iterations: all sampling rounds are
\* run, and the body of the do-while loop runs once before the cap is tested.
C11_IterationsBounded ==
    km.pc \in {"kmLoop", "kmReturn", "done"} =>
        km.iter <= Max({1, km.samplingRounds, km.maxIterations})

\* the loop has ended after more than maxKMeansIterations iterations, the last of
\* which was a sampling round
C11_Witness ==
    /\ km.pc = "done"
    /\ km.maxIterations >= 1
    /\ km.iter > km.maxIterations
    /\ km.iter = km.samplingRounds

\* the loop has stopped after fewer than maxKMeansIterations iterations
KMStoppedEarly ==
    km.pc \in {"kmReturn", "done"} /\ km.iter < km.maxIterations

\* every block weight of the last assignment is at most (1 + epsilon) times its target
KMLastAssignmentBalanced ==
    KMAllBlocksBalanced(km.result, km.sampled, km.numBlocks, km.numNodeWeights, km.epsilon)

\* C12 as stated: if the main loop of computePartition stops after fewer than
\* maxKMeansIterations iterations, every block weight is within epsilon of its
\* target for every weight and the center movement of the last iteration is not
\* above the drift threshold.
C12_EarlyStopMeansBalanced ==
    KMStoppedEarly => (~km.deltaAboveThreshold /\ KMLastAssignmentBalanced)

\* C12, amended: if the loop stops after fewer than maxKMeansIterations
\* iterations, the center movement of the last iteration is not above the
\* threshold, all points were sampled, and either every block weight is within
\* epsilon of its target or the imbalances differ from those of the iteration
\* before by less than 0.001 on average.
C12_EarlyStopMeansSettled ==
    KMStoppedEarly =>
        /\ ~km.deltaAboveThreshold
        /\ km.sampled = Vertices(km.n)
        /\ \/ KMLastAssignmentBalanced
           \/ KMImbalanceSettled(km.imbalancesBefore, km.imbalances, km.numNodeWeights)

\* an early stop with a block above its cap: the imbalances only stopped changing
C12_Witness ==
    /\ KMStoppedEarly
    /\ km.pc = "done"
    /\ ~KMLastAssignmentBalanced
    /\ KMImbalanceSettled(km.imbalancesBefore, km.imbalances, km.numNodeWeights)

\* the cap of weight w: settings.epsilons[w] where it is given, settings.epsilon
\* otherwise
RBCap(w) == IF w <= Len(rb.epsilons) THEN rb.epsilons[w] ELSE rb.epsilon

\* the largest imbalance, over all weights, of the two blocks a and c
RBMaxOverPair(pt, a, c) ==
    RatMaxOf(RBImbalancesPerBlock(rb, pt, a) \o RBImbalancesPerBlock(rb, pt, c))

\* moving point p to block c strictly reduces the maximum imbalance
RBMoveReduces(pt, p, c) ==
    RatLess(RBMaxOverPair([pt EXCEPT ![p] = c], pt[p], c), RBMaxOverPair(pt, pt[p], c))

\* block c with point p in it is not above its cap in any weight
RBStaysUnderCap(pt, p, c) ==
    \A w \in 1 .. rb.numWeights :
        ~RatLess(RBCap(w), RBCandidateNewImbalances(rb, pt, p, c)[w])

RBAcceptable(pt, p, c) ==
    c # pt[p] /\ RBMoveReduces(pt, p, c) /\ RBStaysUnderCap(pt, p, c)

\* a point that had not moved before has just been visited
RBVisitedFresh == rb.visit # <<>> /\ ~rb.visit.hadMoved

\* C13: a visited point is relocated exactly when a relocation strictly reduces
\* the maximum imbalance over all weights and leaves the receiving block under
\* its cap in every weight, and it is relocated to such a block.
C13_RelocatesIffAcceptable ==
    RBVisitedFresh =>
        /\ rb.visit.to # rb.visit.from =>
               RBAcceptable(rb.visit.before, rb.visit.point, rb.visit.to)
        /\ (\E c \in Blocks(rb.numBlocks) :
                RBAcceptable(rb.visit.before, rb.visit.point, c)) =>
               rb.visit.to # rb.visit.from

\* C14: every call of rebalance comes to its end, and the walk over the sorted
\* points is started again at most maxNumRestarts times.
C14_TerminatesWithinRestartCap ==
    /\ [](rb.thisRun <= maxNumRestarts)
    /\ <>(rb.pc \in {"done", "abort"})

C14_Witness ==
    rb.pc = "done" /\ rb.thisRun = maxNumRestarts /\ rb.returned > 0

\* C15: in computeCut and in computePartition a process that raises a validation
\* error has not executed a collective operation before, and no other process
\* has entered one at that moment.
C15_ValidationBeforeCollectives ==
    (vl.pc = "running" /\ vl.op \in {"computeCut", "computePartition"}) =>
        \A i \in Procs(vl.p) :
            vl.status[i] = "threw" =>
                vl.ownCollectives[i] = 0 /\ ~vl.othersInCollective[i]

\* C16: computeCut, getNumBorderInnerNodes and computeCommVolume return no value
\* on any process when the row distribution of the graph differs from the
\* distribution of the partition.
C16_MismatchNeverReturns ==
    (/\ vl.pc = "running"
     /\ vl.op \in {"computeCut", "getNumBorderInnerNodes", "computeCommVolume"}
     /\ vl.inputDist # vl.partDist) =>
        \A i \in Procs(vl.p) : vl.status[i] # "returned"

\* the exact quotient (m - opt)/opt with m the size of the largest block and
\* opt = ceil(n/k)
IMExactQuotient ==
    <<Max({BlockSize(im.part, im.n, b) : b \in Blocks(im.k)}) - CeilDiv(im.n, im.k),
      CeilDiv(im.n, im.k)>>

\* C17: computeImbalance(part, k) of an unweighted partition returns the exact
\* quotient (m - opt)/opt, m the size of the largest block, opt = ceil(n/k).
C17_ExactQuotient ==
    im.pc = "done" =>
        im.result[1] * IMExactQuotient[2] = IMExactQuotient[1] * im.result[2]

\* the number of entries (row, column) with the row owned by process a and the
\* column owned by process b
PEEntries(a, b) ==
    Cardinality({e \in Vertices(pe.n) \X Vertices(pe.n) :
                    /\ e[2] \in pe.adj[e[1]]
                    /\ pe.owner[e[1]] = a
                    /\ pe.owner[e[2]] = b})

\* C18: in the graph getPEGraph returns the edge (p,q) exists iff process p owns
\* a row with a column owned by q, and its weight is the number of these entries.
C18_WeightIsEntryCount ==
    pe.pc = "done" =>
        \A a, b \in Procs(pe.p) : pe.PEgraph[a][b] = PEEntries(a, b)

\* C18, amended: the edge (p,q) exists iff p # q and process p owns a row with a
\* column owned by q; every edge has weight 1.
C18_EdgesBetweenDistinctProcesses ==
    pe.pc = "done" =>
        \A a, b \in Procs(pe.p) :
            pe.PEgraph[a][b] = IF a # b /\ PEEntries(a, b) > 0 THEN 1 ELSE 0

C18_Witness ==
    /\ pe.pc = "done"
    /\ \E a, b \in Procs(pe.p) : a # b /\ PEEntries(a, b) >= 2
    /\ \E a \in Procs(pe.p) : PEEntries(a, a) > 0

\* C19: partitionGraph called with k = n returns a partition in which every block
\* contains exactly one vertex.
C19_OneVertexPerBlock ==
    (pc = "done" /\ entry = "partitionGraph" /\ k = n) =>
        \A b \in Blocks(k) : BlockSize(part, n, b) = 1

\* every process holds exactly one point
SUOnePointEach == su.pc # "idle" /\ \A i \in Procs(su.p) : su.localN[i] = 1

\* C20: when every process holds exactly one point, the set-up of the sampling
\* schedule and of the distance bounds in KMeans::computePartition makes no
\* out-of-range access, fails no assertion and raises no error.
C20_OnePointPerProcessSetsUp ==
    SUOnePointEach =>
        \A i \in Procs(su.p) :
            /\ su.status[i] \notin {"abort", "crash"}
            /\ ~su.outOfRange[i]

\* the partition after the first j moves of the replicatedMultiWayFM call: a moved
\* vertex is in the block it was moved to if its move is among the first j, and in
\* the block it came from otherwise
FMPrefixPartition(j) ==
    [v \in Vertices(n) |->
        IF \E i \in 1 .. Len(fm.transferedVertices) : fm.transferedVertices[i] = v
        THEN LET i == CHOOSE x \in 1 .. Len(fm.transferedVertices) :
                          fm.transferedVertices[x] = v
             IN IF i <= j THEN fm.transfers[i][2] ELSE fm.transfers[i][1]
        ELSE part[v]]

\* the first j moves keep every block within (1 + epsilon) * ceil(n / k)
FMPrefixBalanced(j) ==
    ImbalanceLE(MaxBlockSize(FMPrefixPartition(j), n, k), CeilDiv(n, k), eps)

\* the cumulative gain of the first j moves: the cut they remove
FMPrefixGain(j) == cut - ComputeCut(adj, FMPrefixPartition(j), n)

\* the balanced prefixes of positive gain
FMGoodPrefixes ==
    {j \in 1 .. Len(fm.transferedVertices) : FMPrefixBalanced(j) /\ FMPrefixGain(j) > 0}

\* the first region after the first j moves of the twoWayLocalFM call
TWPrefixFirst(j) ==
    (tw.firstRegionCopy
        \ {tw.transfers[i][2] : i \in {x \in 1 .. j : tw.transfers[x][1] = 0}})
    \cup {tw.transfers[i][2] : i \in {x \in 1 .. j : tw.transfers[x][1] = 1}}

\* the sizes of the two blocks after the first j moves
TWPrefixSizes(j) ==
    LET first == BlockSize(part, n, df.proc)
                 - Cardinality(tw.firstRegionCopy) + Cardinality(TWPrefixFirst(j))
    IN <<first, BlockSize(part, n, df.proc) + BlockSize(part, n, Partner) - first>>

TWPrefixGain(j) == IF j = 0 THEN 0 ELSE tw.gainSumList[j]

\* the prefixes of positive gain that keep both blocks within their capacities
TWGoodPrefixes ==
    {j \in 1 .. Len(tw.transfers) :
        /\ TWPrefixSizes(j)[1] <= tw.blockCapacities[1]
        /\ TWPrefixSizes(j)[2] <= tw.blockCapacities[2]
        /\ TWPrefixGain(j) > 0}

\* C21: when an FM pass (replicatedMultiWayFM, twoWayLocalFM) returns, exactly the
\* moves of a prefix are kept that has the largest cumulative gain among the
\* prefixes that satisfy the balance constraint, all later moves are undone and that
\* gain is returned; if no balanced prefix has positive gain, the partition is the
\* input partition and 0 is returned.
C21_BestBalancedPrefixKept ==
    /\ (pc = "pgCheck" /\ mode = "replicated" /\ fm.active) =>
          IF FMGoodPrefixes = {}
          THEN part = FMPrefixPartition(0) /\ gain = 0
          ELSE \E j \in FMGoodPrefixes :
                  /\ part = FMPrefixPartition(j)
                  /\ gain = FMPrefixGain(j)
                  /\ \A i \in FMGoodPrefixes : FMPrefixGain(i) <= gain
    /\ (pc = "twReturn" /\ tw.active /\ tw.returned) =>
          IF TWGoodPrefixes = {}
          THEN tw.firstregion = tw.firstRegionCopy /\ tw.result = 0
          ELSE \E j \in TWGoodPrefixes :
                  /\ tw.firstregion = TWPrefixFirst(j)
                  /\ tw.secondregion
                       = (tw.firstregion \cup tw.secondregion) \ TWPrefixFirst(j)
                  /\ tw.result = TWPrefixGain(j)
                  /\ \A i \in TWGoodPrefixes : TWPrefixGain(i) <= tw.result

\* a replicated pass kept some of its moves and undid the others, although a longer
\* prefix that breaks the balance had a larger gain
C21_Witness ==
    /\ pc = "pgCheck" /\ mode = "replicated" /\ fm.active
    /\ gain > 0
    /\ \E j \in 1 .. (Len(fm.transferedVertices) - 1) : part = FMPrefixPartition(j)
    /\ \E i \in 1 .. Len(fm.transferedVertices) :
           ~FMPrefixBalanced(i) /\ FMPrefixGain(i) > gain

RECURSIVE WithinRounds(_, _, _)
\* the vertices of block b that the breadth-first search inside b reaches from the
\* set S in at most r rounds
WithinRounds(b, S, r) ==
    IF r = 0 THEN S
    ELSE LET prev == WithinRounds(b, S, r - 1)
         IN prev \cup {u \in Vertices(n) : part[u] = b /\ \E v \in prev : u \in adj[v]}

\* the vertices of thisBlock with a neighbour in otherBlock
BorderOf(thisBlock, otherBlock) ==
    {v \in Vertices(n) : part[v] = thisBlock /\ \E u \in adj[v] : part[u] = otherBlock}

\* the vertices found in all but the last round, and in the last round, of the
\* search of magicBorderRegionDepth + 1 rounds (the border is the first round)
AllButLastRound(thisBlock, otherBlock) ==
    WithinRounds(thisBlock, BorderOf(thisBlock, otherBlock), magicBorderRegionDepth - 1)
LastRound(thisBlock, otherBlock) ==
    WithinRounds(thisBlock, BorderOf(thisBlock, otherBlock), magicBorderRegionDepth)
        \ AllButLastRound(thisBlock, otherBlock)

\* the cut removed by moving v into block target
TrueGain(v, target) ==
    Cardinality({u \in adj[v] : part[u] = target})
        - Cardinality({u \in adj[v] : part[u] = part[v]})

\* C22: the vertex sets distributedFMStep hands to twoWayLocalFM: the movable region
\* of each side is the set of vertices found in all but the last round of
\* getInterfaceNodes, the dummy layer is the set found in the last round, every
\* same-block neighbour of a movable vertex is in the region or the dummy layer, and
\* the gains computed locally are the true gains.
C22_RegionsAreInnerRounds ==
    (pc = "twCall" /\ tw.active) =>
        /\ tw.firstregion = AllButLastRound(df.proc, Partner)
        /\ tw.firstDummyLayer = LastRound(df.proc, Partner)
        /\ tw.secondregion = AllButLastRound(Partner, df.proc)
        /\ tw.secondDummyLayer = LastRound(Partner, df.proc)
        /\ \A v \in tw.firstregion : \A u \in adj[v] :
               part[u] = part[v] => u \in tw.firstregion \cup tw.firstDummyLayer
        /\ \A v \in tw.secondregion : \A u \in adj[v] :
               part[u] = part[v] => u \in tw.secondregion \cup tw.secondDummyLayer
        /\ \A v \in tw.firstregion :
               ComputeGain(adj, tw.firstregion, tw.secondregion,
                           tw.firstDummyLayer, tw.secondDummyLayer, v)
                   = TrueGain(v, Partner)
        /\ \A v \in tw.secondregion :
               ComputeGain(adj, tw.firstregion, tw.secondregion,
                           tw.firstDummyLayer, tw.secondDummyLayer, v)
                   = TrueGain(v, df.proc)

\* C23: in hierarchical mode assignBlocks gives every sampled point a block in the
\* range [prefix[f], prefix[f+1]) of the children of the point's parent block f.
C23_AssignedWithinParentRange ==
    (asg.pc \in {"balanceLoop", "done"} /\ asg.iter > 0) =>
        \A v \in asg.sampled :
            /\ asg.blockSizesPrefixSum[asg.fatherBlock[v] + 1] <= asg.assignment[v]
            /\ asg.assignment[v] < asg.blockSizesPrefixSum[asg.fatherBlock[v] + 2]

\* the call returned after a pass that skipped a point, and a sampled point is
\* strictly closer to a center of another parent than to every center of its own
C23_Witness ==
    /\ asg.pc = "done" /\ asg.iter > 1
    /\ asg.skipped # {}
    /\ \E v \in asg.sampled : \E j \in Blocks(asg.numNewBlocks) :
           /\ ~(asg.blockSizesPrefixSum[asg.fatherBlock[v] + 1] <= j
                 /\ j < asg.blockSizesPrefixSum[asg.fatherBlock[v] + 2])
           /\ \A i \in Blocks(asg.numNewBlocks) :
                  (asg.blockSizesPrefixSum[asg.fatherBlock[v] + 1] <= i
                   /\ i < asg.blockSizesPrefixSum[asg.fatherBlock[v] + 2])
                  => RatLess(ABSqDist(v, j), ABSqDist(v, i))

\* the points of the input with their coordinates
ICInputCoords ==
    {ICCoord(p, i) : p \in ICProcs(ic.numPEs), i \in 1 .. ICMaxLocalN} \cap
    UNION {{ICCoord(p, i) : i \in 1 .. Len(ic.localPart[p])} : p \in ICProcs(ic.numPEs)}

\* C24: when findInitialCentersSFC has returned, for every centre exactly one process
\* has stored the coordinates of a point, and the summed centre is the coordinates
\* of one point of the input.
C24_EveryCentreIsOnePoint ==
    ic.pc = "done" =>
        \A b \in Blocks(ic.numOldBlocks) :
            \A j \in Blocks(ic.numNewBlocksPerOldBlock[b]) :
                /\ Cardinality(ICEmitters(b, j)) = 1
                /\ ic.centersPerNewBlock[b][j] \in ICInputCoords

\* every process has the result of its twoWayLocalFM call and is about to swap it
DFExchange == pc = "dfRound" /\ df.active /\ df.proc = numPEs

\* line 1068: neither this process nor its partner achieved a gain
DFBothKeep(r) ==
    df.res[df.communicationScheme[df.round][r]].gain = 0 /\ df.res[r].gain = 0

\* line 1095 as process r evaluates it
DFReceives(r) ==
    OtherWasBetter(df.res[r].gain, df.res[df.communicationScheme[df.round][r]].gain,
                   df.communicationScheme[df.round][r], r)

\* C25: when the results of a round are exchanged, the two partners of every pair
\* decide alike: both keep their state, or exactly one of them receives the region
\* the other one sends; and the new index sets give every vertex to exactly one
\* process, so that the local sizes add up to n.  The decision of line 1095 is
\* also evaluated for all pairs of gains up to n, equal or not.
C25_PartnersDecideAlike ==
    DFExchange =>
        /\ \A r \in 0 .. (numPEs - 1) :
              df.res[r].matched =>
                  LET partner == df.communicationScheme[df.round][r]
                  IN /\ df.res[partner].matched
                     /\ df.communicationScheme[df.round][partner] = r
                     /\ DFBothKeep(r) <=> DFBothKeep(partner)
                     /\ ~DFBothKeep(r) => (DFReceives(r) <=> ~DFReceives(partner))
        /\ \A r, q \in 0 .. (numPEs - 1) : \A ownGain, otherGain \in 0 .. n :
              r # q => (OtherWasBetter(ownGain, otherGain, q, r)
                            <=> ~OtherWasBetter(otherGain, ownGain, r, q))
        /\ \A v \in Vertices(n) :
              Cardinality({r \in 0 .. (numPEs - 1) : v \in NewIndices(r)}) = 1
        /\ SumOver([r \in 0 .. (numPEs - 1) |-> Cardinality(NewIndices(r))],
                   0 .. (numPEs - 1)) = n

\* two partners achieved the same positive gain, and the exchange moves vertices
C25_Witness ==
    /\ DFExchange
    /\ \E r \in 0 .. (numPEs - 1) :
          /\ df.res[r].matched
          /\ df.res[r].gain > 0
          /\ df.res[df.communicationScheme[df.round][r]].gain = df.res[r].gain
          /\ NewIndices(r) # {v \in Vertices(n) : part[v] = r}

\* a process has thrown in the middle of a round
DFThrown == df.active /\ pc = "error" /\ df.proc < numPEs

IsPrefixOf(s, t) == Len(s) <= Len(t) /\ \A i \in 1 .. Len(s) : s[i] = t[i]

\* at the boundaries of the rounds all processes have gone through the same
\* collective operations
DFRoundsAligned ==
    (df.active /\ pc \in {"dfRound", "dfReturn"} /\ (pc = "dfRound" => df.proc \in {0, numPEs})) =>
        \A r, q \in 0 .. (numPEs - 1) : df.ops[r] = df.ops[q]

\* C26: in every round of distributedFMStep every process, matched or not, goes
\* through the same sequence of collective operations: the sequences are equal when
\* all processes have done their part of a round, and no process has entered a
\* collective operation that a process which has left the round never enters.
C26_SameCollectives ==
    /\ DFRoundsAligned
    /\ DFThrown => \A q \in 0 .. (numPEs - 1) : IsPrefixOf(df.ops[q], df.ops[df.proc])

\* C27: two processes that have finished the same number of k-means iterations have
\* gone through the same sequence of collective operations, also when the sampled
\* range of one of them is empty.
C27_SameReductions ==
    kc.pc = "run" =>
        \A p, q \in ICProcs(kc.numPEs) :
            (kc.step[p] \in {"loop", "done"} /\ kc.step[q] \in {"loop", "done"}
                /\ kc.iter[p] = kc.iter[q]) => kc.ops[p] = kc.ops[q]

\* C30: in a call of rebalance no point has been moved to another block more than
\* once, whatever the number of restarts of the walk.
C30_RelocatedAtMostOnce ==
    rb.pc \in {"rbLoop", "rbReturn", "done"} =>
        \A v \in Vertices(rb.n) : rb.moves[v] <= 1

\* after a restart the walk has visited a point that had been moved before and
\* whose block would still be above its target without the point
C30_Witness ==
    /\ rb.pc \in {"rbLoop", "rbReturn", "done"}
    /\ rb.thisRun > 0
    /\ rb.visit # <<>>
    /\ rb.visit.hadMoved
    /\ RatLess(<<0, 1>>, RatMaxOf(RBThisBlockNewImbalances(rb, rb.visit.before,
                                                           rb.visit.point)))
    /\ rb.moves[rb.visit.point] = 1

\* C28: in rebalance the processes stay together: whenever all of them wait in a
\* collective operation it is the same one, the sum of the block weight
\* differences of a batch or comm->all(meDone), in the same iteration of the loop
\* and after the same collective operations, and the loop ends on all processes
\* after the same number of iterations.
C28_ProcessesStayTogether ==
    /\ rl.pc # "crossed"
    /\ (rl.pc = "run" /\ RLAllWaiting) =>
          \A p, q \in ICProcs(rl.numPEs) :
              /\ rl.at[p] = rl.at[q]
              /\ rl.iters[p] = rl.iters[q]
              /\ rl.ops[p] = rl.ops[q]
    /\ rl.pc = "done" =>
          \A p, q \in ICProcs(rl.numPEs) :
              rl.iters[p] = rl.iters[q] /\ rl.ops[p] = rl.ops[q]

\* two processes with different numbers of points, one of which has moved points
\* and the other none, have finished the loop after batch sums and restarts
C28_Witness ==
    /\ rl.pc = "done"
    /\ \E p, q \in ICProcs(rl.numPEs) :
          /\ rl.localN[p] # rl.localN[q]
          /\ rl.numMoves[p] > 0 /\ rl.numMoves[q] = 0
          /\ rl.thisRun[p] = maxNumRestarts
          /\ rl.iters[p] > maxNumRestarts + 1


====
